---- MODULE Spec2Model ----
(***************************************************************************)
(* Model of the pill-recognition service: the /api/recognize,             *)
(* /api/cancel and /api/progress handlers of app.py with their shared     *)
(* PROGRESS and CANCEL_FLAGS tables, and the scan loop of                 *)
(* DrugImageRecognizer.recognize_drug (image_recognition.py) with its     *)
(* feature cache, keypoint cache, filters, fusion scoring and ranking.    *)
(*                                                                         *)
(* Numbers.  Similarities are kept as exact integers:                      *)
(*   color, circularity, texture, imprint similarity : per mille (1000=1) *)
(*   aspect-ratio similarity                         : scale 2000         *)
(*   shape similarity                                : scale 20000        *)
(*   weighted sum                                    : scale 200000       *)
(*   final score (sum * penalties in tenths)         : scale 20000000     *)
(* Mean hue / saturation / value are in tenths.                            *)
(* Labels are sequences of characters; a character is a string.           *)
(* Timestamps (ts) are not modelled.                                       *)
(***************************************************************************)
EXTENDS Integers, Sequences, FiniteSets, TLC

\* ------------------------------------------------------------------------
\* Bounds
\* ------------------------------------------------------------------------
\* number of (drug, image) rows the metadata store returns
NumRecords == 7

\* largest top_k a client sends
MaxTopK == 2

\* number of reload_feature_cache calls
MaxReloads == 1

\* ------------------------------------------------------------------------
\* Identities
\* ------------------------------------------------------------------------
\* concurrently served /api/recognize handler invocations
Calls == {"c1", "c2"}

\* request ids clients send
RequestIds == {"r1", "r2"}

\* a cancel body without request_id
NoId == "no_id"

\* ------------------------------------------------------------------------
\* Labels
\* ------------------------------------------------------------------------
ShapeRound == <<"yuan", "xing">>

ShapeOval == <<"tuo", "yuan", "xing">>

ColorWhite == <<"bai", "se">>

ColorYellow == <<"huang", "se">>

ColorGrey == <<"hui", "se">>

\* s[i..i+Len(t)-1] = t for some i: Python's `t in s` on strings
Contains(s, t) ==
    \E i \in 0 .. (Len(s) - Len(t)) :
        \A j \in 1 .. Len(t) : s[i + j] = t[j]

\* a missing label (None, NULL) and the empty string are both written <<>>:
\* the code tests labels only by truth value (`if filter_shape`, `not
\* drug_shape`, `r.get("color") or ""`), which is the same for the two
Falsy(s) == s = <<>>

\* ------------------------------------------------------------------------
\* The corpus: rows of the metadata store and files of the photo directory
\* ------------------------------------------------------------------------
\* what a file of the photo directory holds: whether it exists, whether
\* cv2.imdecode reads it, the classes of the histograms the extractors
\* find, and the keypoint descriptors (orb), each descriptor a point of a
\* line on which the matcher measures distances
Image(hist, circularity, aspect_ratio, lbp, orb) ==
    [exists |-> TRUE, decoded |-> TRUE, hist |-> hist,
     circularity |-> circularity, aspect_ratio |-> aspect_ratio,
     lbp |-> lbp, orb |-> orb]

MissingFile ==
    [exists |-> FALSE, decoded |-> FALSE, hist |-> 0, circularity |-> 0,
     aspect_ratio |-> 1000, lbp |-> 0, orb |-> <<>>]

\* a file that is there and that cv2.imdecode cannot read
UnreadableFile == [MissingFile EXCEPT !.exists = TRUE]

\* the kinds of reference image the corpus cycles through
ImageKinds ==
    << [shape |-> ShapeOval,  color |-> ColorWhite,
        file |-> Image(2, 600, 1800, 2, <<14, 16, 50, 52>>)],
       [shape |-> ShapeRound, color |-> ColorYellow,
        file |-> Image(4, 850, 1000, 3, <<>>)],
       [shape |-> ShapeRound, color |-> ColorWhite,
        file |-> Image(1, 900, 1000, 1, <<10, 20, 30>>)],
       [shape |-> ShapeRound, color |-> ColorWhite,
        file |-> MissingFile],
       \* a second photograph of the first pill, its shape label missing
       [shape |-> <<>>, color |-> ColorWhite,
        file |-> Image(2, 600, 1800, 2, <<14, 16, 50, 52>>)],
       \* the third pill photographed with fewer keypoints, its color
       \* label missing
       [shape |-> ShapeRound, color |-> <<>>,
        file |-> Image(1, 900, 1000, 1, <<20, 90>>)],
       \* a damaged photograph of a grey pill
       [shape |-> ShapeRound, color |-> ColorGrey,
        file |-> UnreadableFile] >>

KindOf(i) == ImageKinds[((i - 1) % Len(ImageKinds)) + 1]

\* the rows the SELECT of _load_image_metadata yields, in store order
DbRows ==
    [i \in 1 .. NumRecords |->
        [drug_id |-> i, shape |-> KindOf(i).shape, color |-> KindOf(i).color,
         image_filename |-> i]]

\* photo_dir / filename
PhotoDir(filename) == KindOf(filename).file

\* the photographs clients upload, with the mean hue, saturation and
\* value (in tenths) of the preprocessed frame.  odd_oval is a photograph
\* of the first pill on which OpenCV misbehaves: its descriptor array is
\* one the matcher rejects (written with negative entries), and the color
\* conversion of _infer_color_labels raises (written mean_s = -1)
QueryImages ==
    { [name |-> "white_round",
       image |-> Image(1, 900, 1000, 1, <<10, 20, 30>>),
       mean_h |-> 200, mean_s |-> 200, mean_v |-> 2000],
      [name |-> "yellow_round", image |-> Image(4, 850, 1000, 3, <<>>),
       mean_h |-> 300, mean_s |-> 1200, mean_v |-> 1800],
      [name |-> "odd_oval",
       image |-> Image(2, 600, 1800, 2, <<-1, -2>>),
       mean_h |-> 0, mean_s |-> -1, mean_v |-> 0],
      [name |-> "corrupt", image |-> UnreadableFile,
       mean_h |-> 0, mean_s |-> 0, mean_v |-> 0] }

\* ------------------------------------------------------------------------
\* Color inference and filters
\* ------------------------------------------------------------------------
\* _infer_color_labels on the mean hue, saturation and value of the
\* frame; [] when the conversion raises (344-345)
InferColorLabels(img) ==
    LET h == img.mean_h
        s == img.mean_s
        v == img.mean_v
    IN  IF s < 0 THEN <<>>
        ELSE IF s < 300
        THEN IF v > 1800 THEN << <<"bai">>, <<"bai", "se">> >>
             ELSE IF v < 600 THEN << <<"hei">>, <<"hei", "se">> >>
             ELSE << <<"hui">>, <<"hui", "se">> >>
        ELSE IF (h <= 100 \/ h >= 1600) /\ 300 <= s /\ s < 1000 /\ v > 1500
        THEN << <<"fen">>, <<"fen", "hong">>, <<"fen", "hong", "se">>,
                <<"fen", "se">> >>
        ELSE IF h <= 100 \/ h >= 1600
        THEN << <<"hong">>, <<"hong", "se">>, <<"fen">>, <<"fen", "hong">> >>
        ELSE IF 110 <= h /\ h <= 250
        THEN << <<"cheng">>, <<"ju">>, <<"cheng", "se">>, <<"ju", "se">> >>
        ELSE IF 260 <= h /\ h <= 340
        THEN << <<"huang">>, <<"huang", "se">> >>
        ELSE IF 350 <= h /\ h <= 850
        THEN << <<"lv">>, <<"lv", "se">> >>
        ELSE IF 860 <= h /\ h <= 1250
        THEN << <<"lan">>, <<"lan", "se">> >>
        ELSE IF 1260 <= h /\ h <= 1590
        THEN << <<"zi">>, <<"zi", "se">> >>
        ELSE << <<"zong">>, <<"ka", "fei">>, <<"zong", "se">>,
                <<"ka", "fei", "se">> >>

\* a shape filter that matches by containment, as the color filter does
MatchFilters_ShapeSubstring(record, filter_shape, filter_color) ==
    /\ ~Falsy(filter_shape) =>
           ~(Falsy(record.shape) \/ ~Contains(record.shape, filter_shape))
    /\ ~Falsy(filter_color) =>
           ~(Falsy(record.color) \/ ~Contains(record.color, filter_color))

\* two filters of which one is enough
MatchFilters_EitherFilter(record, filter_shape, filter_color) ==
    IF ~Falsy(filter_shape) /\ ~Falsy(filter_color)
    THEN \/ ~(Falsy(record.shape) \/ record.shape # filter_shape)
         \/ ~(Falsy(record.color) \/ ~Contains(record.color, filter_color))
    ELSE /\ ~Falsy(filter_shape) =>
                ~(Falsy(record.shape) \/ record.shape # filter_shape)
         /\ ~Falsy(filter_color) =>
                ~(Falsy(record.color)
                  \/ ~Contains(record.color, filter_color))

\* _match_filters: shape by equality, color by containment
MatchFilters(record, filter_shape, filter_color) ==
    /\ ~Falsy(filter_shape) =>
           ~(Falsy(record.shape) \/ record.shape # filter_shape)
    /\ ~Falsy(filter_color) =>
           ~(Falsy(record.color) \/ ~Contains(record.color, filter_color))

\* [record for record in records if self._match_filters(record, ..)]
RECURSIVE SelectMatching(_, _, _)
SelectMatching(records, filter_shape, filter_color) ==
    IF records = <<>> THEN <<>>
    ELSE (IF MatchFilters(Head(records), filter_shape, filter_color)
          THEN <<Head(records)>> ELSE <<>>)
             \o SelectMatching(Tail(records), filter_shape, filter_color)

\* any(lbl in (r.get("color") or "") for lbl in auto_colors)
AnyLabelIn(auto_colors, record) ==
    \E k \in 1 .. Len(auto_colors) : Contains(record.color, auto_colors[k])

\* [r for r in records if any(lbl in color for lbl in auto_colors)]
RECURSIVE SelectAutoColor(_, _)
SelectAutoColor(records, auto_colors) ==
    IF records = <<>> THEN <<>>
    ELSE (IF AnyLabelIn(auto_colors, Head(records))
          THEN <<Head(records)>> ELSE <<>>)
             \o SelectAutoColor(Tail(records), auto_colors)

\* a candidate list narrowed by the inferred labels also when a filter
\* is given
FilteredRecords_AlwaysInfer(records, img, filter_shape, filter_color) ==
    LET auto_colors == InferColorLabels(img)
        matching == IF ~Falsy(filter_shape) \/ ~Falsy(filter_color)
                    THEN SelectMatching(records, filter_shape, filter_color)
                    ELSE records
    IN  IF Len(auto_colors) > 0
        THEN SelectAutoColor(matching, auto_colors)
        ELSE matching

\* the candidate list recognize_drug scans: explicit filters when one
\* is given, otherwise the inferred color labels when there are any
FilteredRecords(records, img, filter_shape, filter_color) ==
    IF ~Falsy(filter_shape) \/ ~Falsy(filter_color)
    THEN SelectMatching(records, filter_shape, filter_color)
    ELSE LET auto_colors == InferColorLabels(img)
         IN  IF Len(auto_colors) > 0
             THEN SelectAutoColor(records, auto_colors)
             ELSE records

\* ------------------------------------------------------------------------
\* Features and similarities
\* ------------------------------------------------------------------------
Abs(x) == IF x < 0 THEN -x ELSE x

Max(a, b) == IF a > b THEN a ELSE b

Min(a, b) == IF a < b THEN a ELSE b

\* the (color histogram, shape, texture histogram) tuple computed from
\* a decoded reference image
ExtractFeatures(content) ==
    [hist |-> content.hist,
     shape |-> [circularity |-> content.circularity,
                aspect_ratio |-> content.aspect_ratio],
     lbp |-> content.lbp]

\* None in place of a descriptor array: the detector yields None, never an
\* empty array, when it finds no keypoint
NoDescriptors == <<>>

\* extract_orb_descriptors: None when the detector finds no descriptor
ExtractOrb(content) == content.orb

\* cv2.compareHist(.., HISTCMP_CORREL) in per mille, on the histogram
\* classes of the corpus: a correlation falls with the class distance
\* and is negative for the farthest classes
CompareHistCorrel(hist1, hist2) ==
    LET d == Abs(hist1 - hist2)
    IN  IF d = 0 THEN 1000
        ELSE IF d = 1 THEN 450
        ELSE IF d = 2 THEN 300
        ELSE IF d = 3 THEN 100
        ELSE -200

\* calculate_similarity: correlation clamped at 0
CalculateSimilarity(hist1, hist2) == Max(0, CompareHistCorrel(hist1, hist2))

\* exp(-chi_square / 2) in per mille, on the texture classes of the
\* corpus: the chi-square distance grows with the class distance
ExpHalfChiSquare(lbp1, lbp2) ==
    LET d == Abs(lbp1 - lbp2)
    IN  IF d = 0 THEN 1000
        ELSE IF d = 1 THEN 600
        ELSE 100

\* calculate_lbp_similarity: clamped to [0, 1]
CalculateLbpSimilarity(lbp1, lbp2) ==
    Max(0, Min(1000, ExpHalfChiSquare(lbp1, lbp2)))

\* the distance the matcher measures between two descriptors
Distance(a, b) == Abs(a - b)

\* matcher.knnMatch(descriptors1, descriptors2, k=2) for one query
\* descriptor: the distances (m, n) to its nearest and second nearest of
\* descriptors2; a pair of fewer than two when descriptors2 has fewer
KnnPair(q, descriptors2) ==
    IF Len(descriptors2) < 2 THEN <<>>
    ELSE LET best == CHOOSE i \in 1 .. Len(descriptors2) :
                         \A j \in 1 .. Len(descriptors2) :
                             Distance(q, descriptors2[i])
                                 <= Distance(q, descriptors2[j])
             second == CHOOSE i \in (1 .. Len(descriptors2)) \ {best} :
                           \A j \in (1 .. Len(descriptors2)) \ {best} :
                               Distance(q, descriptors2[i])
                                   <= Distance(q, descriptors2[j])
         IN  <<Distance(q, descriptors2[best]),
               Distance(q, descriptors2[second])>>

\* number of query descriptors whose best match passes the ratio test
\* m.distance < 0.75 * n.distance
GoodMatches(descriptors1, descriptors2) ==
    Cardinality({i \in 1 .. Len(descriptors1) :
                    LET pair == KnnPair(descriptors1[i], descriptors2)
                    IN  Len(pair) = 2 /\ 4 * pair[1] < 3 * pair[2]})

\* matcher.knnMatch raises cv2.error: one of the arrays is malformed
KnnMatchRaises(descriptors1, descriptors2) ==
    \/ \E i \in 1 .. Len(descriptors1) : descriptors1[i] < 0
    \/ \E i \in 1 .. Len(descriptors2) : descriptors2[i] < 0

\* a failure of the matcher counted as a full match
CalculateOrbSimilarity_FailureIsMatch(descriptors1, descriptors2) ==
    IF descriptors1 = NoDescriptors \/ descriptors2 = NoDescriptors THEN 0
    ELSE IF KnnMatchRaises(descriptors1, descriptors2) THEN 1000
    ELSE LET max_possible == Min(Len(descriptors1), Len(descriptors2))
         IN  IF max_possible = 0 THEN 0
             ELSE (GoodMatches(descriptors1, descriptors2) * 1000)
                      \div max_possible

\* calculate_orb_similarity: good matches / min of the two counts; 0
\* when an array is None or the matcher raises
CalculateOrbSimilarity(descriptors1, descriptors2) ==
    IF descriptors1 = NoDescriptors \/ descriptors2 = NoDescriptors THEN 0
    ELSE IF KnnMatchRaises(descriptors1, descriptors2) THEN 0
    ELSE LET max_possible == Min(Len(descriptors1), Len(descriptors2))
         IN  IF max_possible = 0 THEN 0
             ELSE (GoodMatches(descriptors1, descriptors2) * 1000)
                      \div max_possible

\* shape similarity, scale 20000: 0.7 * circularity + 0.3 * aspect ratio
ShapeSimilarity(uploaded_shape, db_shape) ==
    LET circularity_sim ==
            Max(0, 1000 - Abs(uploaded_shape.circularity
                              - db_shape.circularity))
        aspect_ratio_sim ==
            Max(0, Min(2000, 2000 - Abs(uploaded_shape.aspect_ratio
                                        - db_shape.aspect_ratio)))
    IN  14 * circularity_sim + 3 * aspect_ratio_sim

\* a color penalty whose boundary values take the harsher penalty
ColorPenalty_BoundaryHarsher(color_similarity) ==
    IF color_similarity <= 350 THEN 3
    ELSE IF color_similarity <= 500 THEN 6
    ELSE 10

\* penalties in tenths
ColorPenalty(color_similarity) ==
    IF color_similarity < 350 THEN 3
    ELSE IF color_similarity < 500 THEN 6
    ELSE 10

ShapePenalty(shape_similarity) ==
    IF shape_similarity < 6000 THEN 5
    ELSE IF shape_similarity < 8000 THEN 7
    ELSE 10

\* final score, scale 20000000
OverallSimilarity(color_similarity, shape_similarity, lbp_similarity, orb_similarity) ==
    (80 * color_similarity + 3 * shape_similarity + 40 * lbp_similarity
        + 20 * orb_similarity)
        * ColorPenalty(color_similarity) * ShapePenalty(shape_similarity)

\* one unit of the final score
ScoreOne == 20000000

\* a floor of 0.015 in place of 0.15
MinSimilarity_Low == (15 * ScoreOne) \div 1000

\* 0.15 on the scale of the final score
MinSimilarity == 3000000

\* color similarity from which keypoint descriptors are compared (0.3)
OrbGate == 300

\* a gate that looks at the descriptors of the upload only
OrbGateOpen_NoColorGate(uploaded, features) ==
    ExtractOrb(uploaded) # NoDescriptors

\* the per-candidate part of the loop body after the features are known:
\* the four similarities and the final score of one candidate.
\* db_orb is consulted only behind the gate of OrbGateOpen.
OrbGateOpen(uploaded, features) ==
    /\ ExtractOrb(uploaded) # NoDescriptors
    /\ CalculateSimilarity(uploaded.hist, features.hist) >= OrbGate

ScoreCandidate(uploaded, features, db_orb) ==
    LET color_similarity == CalculateSimilarity(uploaded.hist, features.hist)
        shape_similarity ==
            ShapeSimilarity([circularity |-> uploaded.circularity,
                             aspect_ratio |-> uploaded.aspect_ratio],
                            features.shape)
        lbp_similarity == CalculateLbpSimilarity(uploaded.lbp, features.lbp)
        orb_similarity ==
            IF OrbGateOpen(uploaded, features)
            THEN CalculateOrbSimilarity(ExtractOrb(uploaded), db_orb)
            ELSE 0
    IN  [color |-> color_similarity, shape |-> shape_similarity,
         texture |-> lbp_similarity, imprint |-> orb_similarity,
         similarity |-> OverallSimilarity(color_similarity, shape_similarity,
                                          lbp_similarity, orb_similarity)]

\* the entry appended to results: {**record, "similarity": .., "details": ..}
ResultEntry(record, score) ==
    [record |-> record, similarity |-> score.similarity,
     details |-> [color |-> score.color, shape |-> score.shape,
                  texture |-> score.texture, imprint |-> score.imprint]]

\* ------------------------------------------------------------------------
\* Ranking
\* ------------------------------------------------------------------------
\* an insertion that puts an entry before the entries it ties with
RECURSIVE InsertDescending_Unstable(_, _)
InsertDescending_Unstable(sorted, e) ==
    IF sorted = <<>> THEN <<e>>
    ELSE IF Head(sorted).similarity > e.similarity
    THEN <<Head(sorted)>> \o InsertDescending_Unstable(Tail(sorted), e)
    ELSE <<e>> \o sorted

\* results.sort(key=similarity, reverse=True): a stable sort, so entries
\* with equal similarity keep their order of insertion
RECURSIVE InsertDescending(_, _)
InsertDescending(sorted, e) ==
    IF sorted = <<>> THEN <<e>>
    ELSE IF Head(sorted).similarity >= e.similarity
    THEN <<Head(sorted)>> \o InsertDescending(Tail(sorted), e)
    ELSE <<e>> \o sorted

\* results left in the order of collection
SortDescending_AsCollected(results) == results

RECURSIVE SortDescending(_)
SortDescending(results) ==
    IF results = <<>> THEN <<>>
    ELSE InsertDescending(SortDescending(SubSeq(results, 1, Len(results) - 1)),
                          results[Len(results)])

\* results[:top_k] with Python's slice rules
SliceTo(results, top_k) ==
    IF top_k >= 0 THEN SubSeq(results, 1, Min(top_k, Len(results)))
    ELSE SubSeq(results, 1, Max(0, Len(results) + top_k))

\* ------------------------------------------------------------------------
\* State
\* ------------------------------------------------------------------------
VARIABLES
    PROGRESS,         \* app.py: request_id -> {done, total, status}
    CANCEL_FLAGS,     \* app.py: request_id -> the Event of a call
    cancel_ev,        \* per call: is the threading.Event of the call set
    metadata_loaded,  \* recognizer._metadata_loaded
    image_records,    \* recognizer._image_records
    feature_cache,    \* recognizer._feature_cache: filename -> features
    orb_cache,        \* recognizer._orb_cache: filename -> descriptors
    computed_count,   \* recognizer._computed_count
    features_loaded,  \* recognizer._features_loaded
    preload,          \* position and locals of the thread that runs
                      \* _load_database_features, and the number of reloads
    call,             \* per call: position and locals of /api/recognize,
                      \* and whether a reload had completed when it arrived
    cancel,           \* per handler: position and locals of /api/cancel
    load_lock,        \* recognizer._load_lock: the thread that holds it
    store_queries,    \* SELECTs of _load_image_metadata since the
                      \* metadata flag was last cleared
    store_loaded,     \* the lists those SELECTs have yielded
    store_version,    \* how often the rows of the store have changed
    worker,           \* per loader thread of the lock discipline: its
                      \* position and locals
    probe             \* the similarities and the final score of one
                      \* candidate, for the fusion formula on its own

vars ==
    <<PROGRESS, CANCEL_FLAGS, cancel_ev, metadata_loaded, image_records,
      feature_cache, orb_cache, computed_count, features_loaded, preload,
      call, cancel, load_lock, store_queries, store_loaded, store_version,
      worker, probe>>

lock_vars ==
    <<load_lock, store_queries, store_loaded, store_version, worker>>

recognizer_vars ==
    <<metadata_loaded, image_records, feature_cache, orb_cache,
      computed_count, features_loaded, preload>>

\* /api/cancel handler threads
CancelHandlers == {"k1"}

\* inputs of /api/recognize
TopKs == -1 .. MaxTopK

FilterShapes == {<<>>, ShapeRound, ShapeOval}

FilterColors == {<<>>, <<"bai">>}

NoForm ==
    [request_id |-> NoId, query |-> "none", top_k |-> 0,
     filter_shape |-> <<>>, filter_color |-> <<>>]

NoResponse == [success |-> FALSE, message |-> "pending", data |-> <<>>]

\* the local `features` of a thread that is not between a cache miss and
\* its store
NoFeatures == ExtractFeatures(MissingFile)

ProgressEntry(done, total, status) ==
    [done |-> done, total |-> total, status |-> status]

\* d[k] = v on a Python dict
Put(d, k, v) == [x \in DOMAIN d \cup {k} |-> IF x = k THEN v ELSE d[x]]

\* d.pop(k, None)
Pop(d, k) == [x \in DOMAIN d \ {k} |-> d[x]]

QueryOf(name) == CHOOSE q \in QueryImages : q.name = name

\* no thread: the lock is free
NoThread == "free"

\* the thread that runs _load_database_features
LoaderThread == "loader"

\* the thread that runs reload_feature_cache
ReloadThread == "reload"

Workers == {LoaderThread, ReloadThread}

\* a thread that has not been started; epoch records, for features a
\* thread has computed and not yet stored, how often the cache had been
\* cleared when it computed them
NoWorker ==
    [pc |-> "idle", mode |-> "none", records |-> <<>>, next |-> 1,
     loaded |-> 0, features |-> NoFeatures, reloads |-> 0, epoch |-> 0]

NoProbe ==
    [pc |-> "none", color |-> 0, shape |-> 0, texture |-> 0, imprint |-> 0,
     similarity |-> 0]

InitProgram ==
    /\ PROGRESS = <<>>
    /\ CANCEL_FLAGS = <<>>
    /\ cancel_ev = [c \in Calls |-> FALSE]
    /\ metadata_loaded = FALSE
    /\ image_records = <<>>
    /\ feature_cache = <<>>
    /\ orb_cache = <<>>
    /\ computed_count = 0
    /\ features_loaded = FALSE
    /\ preload = [pc |-> "load_metadata", next |-> 1, loaded |-> 0,
                  features |-> NoFeatures, reloads |-> 0]
    /\ call = [c \in Calls |->
                 [pc |-> "idle", form |-> NoForm, after_reload |-> FALSE,
                  filtered |-> <<>>, idx |-> 0, features |-> NoFeatures,
                  results |-> <<>>, status |-> "none",
                  response |-> NoResponse, epoch |-> 0]]
    /\ cancel = [k \in CancelHandlers |->
                   [pc |-> "idle", req_id |-> NoId, ev |-> "none",
                    done |-> 0, total |-> 0, reply |-> "none"]]
    /\ load_lock = NoThread
    /\ store_queries = 0
    /\ store_loaded = <<>>
    /\ store_version = 0
    /\ worker = [w \in Workers |->
                   IF w = LoaderThread
                   THEN [NoWorker EXCEPT !.pc = "meta_check",
                                         !.mode = "init"]
                   ELSE NoWorker]

Init == InitProgram /\ probe = NoProbe

\* ------------------------------------------------------------------------
\* /api/recognize (app.py recognize_drug) and the scan it runs
\* ------------------------------------------------------------------------
\* on_progress(done, total) of app.py: replaces the entry of the request id
OnProgress(progress, request_id, done, total) ==
    Put(progress, request_id, ProgressEntry(done, total, "running"))

\* The values of a request (upload, top_k, filters, request id) are fixed
\* by the client; each is drawn in the step where the code first uses it.

\* app.py 356-375: the Event of the call is created and stored under the
\* request id
RegisterFlag(c) ==
    /\ call[c].pc = "idle"
    /\ \E request_id \in RequestIds :
          /\ call' = [call EXCEPT ![c].pc = "register_progress",
                        ![c].form.request_id = request_id,
                        ![c].after_reload =
                            (preload.pc = "done" /\ preload.reloads > 0)]
          /\ CANCEL_FLAGS' = Put(CANCEL_FLAGS, request_id, c)
    /\ cancel_ev' = [cancel_ev EXCEPT ![c] = FALSE]
    /\ UNCHANGED <<PROGRESS, recognizer_vars, cancel>>
    /\ UNCHANGED <<lock_vars, probe>>

\* app.py 376-381
RegisterProgress(c) ==
    /\ call[c].pc = "register_progress"
    /\ PROGRESS' = Put(PROGRESS, call[c].form.request_id,
                       ProgressEntry(0, 0, "running"))
    /\ call' = [call EXCEPT ![c].pc = "start"]
    /\ UNCHANGED <<CANCEL_FLAGS, cancel_ev, recognizer_vars, cancel>>
    /\ UNCHANGED <<lock_vars, probe>>

\* image_recognition.py 818-871: decode the upload, load the metadata,
\* restrict the candidates, report (0, total); a scan that returns here
\* returns [] whatever top_k is
StartScan(c) ==
    /\ call[c].pc = "start"
    /\ \E q \in QueryImages, filter_shape \in FilterShapes,
          filter_color \in FilterColors, top_k \in TopKs :
       LET f == [call[c].form EXCEPT !.query = q.name,
                                     !.filter_shape = filter_shape,
                                     !.filter_color = filter_color]
           records == IF metadata_loaded THEN image_records ELSE DbRows
           filtered_records ==
               FilteredRecords(records, q, filter_shape, filter_color)
       IN  IF ~q.image.decoded
           THEN /\ call' = [call EXCEPT ![c].pc = "finish_read",
                              ![c].form = [f EXCEPT !.top_k = top_k],
                              ![c].results = <<>>]
                /\ UNCHANGED <<PROGRESS, metadata_loaded, image_records>>
           ELSE /\ metadata_loaded' = TRUE
                /\ image_records' = records
                /\ IF records = <<>> \/ filtered_records = <<>>
                   THEN /\ call' = [call EXCEPT ![c].pc = "finish_read",
                                      ![c].form = [f EXCEPT !.top_k = top_k],
                                      ![c].results = <<>>]
                        /\ UNCHANGED PROGRESS
                   ELSE /\ call' = [call EXCEPT ![c].pc = "loop",
                                      ![c].form = f,
                                      ![c].filtered = filtered_records,
                                      ![c].idx = 0, ![c].results = <<>>]
                        /\ PROGRESS' = OnProgress(PROGRESS, f.request_id, 0,
                                                  Len(filtered_records))
    /\ UNCHANGED <<CANCEL_FLAGS, cancel_ev, feature_cache, orb_cache,
                   computed_count, features_loaded, preload, cancel>>
    /\ UNCHANGED <<lock_vars, probe>>

\* a check that drops what the scan has collected when it stops
CheckCancelled_Discard(c) ==
    /\ call[c].pc = "loop"
    /\ call' = [call EXCEPT ![c].pc =
                   IF cancel_ev[c] THEN "rank" ELSE "score",
                  ![c].results = IF cancel_ev[c] THEN <<>> ELSE @]
    /\ UNCHANGED <<PROGRESS, CANCEL_FLAGS, cancel_ev, recognizer_vars,
                   cancel>>
    /\ UNCHANGED <<lock_vars, probe>>

\* image_recognition.py 873-876: the cancellation check at the head of an
\* iteration; call[c].idx candidates have been taken from the list so far
CheckCancelled(c) ==
    /\ call[c].pc = "loop"
    /\ call' = [call EXCEPT ![c].pc =
                   IF cancel_ev[c] THEN "rank" ELSE "score"]
    /\ UNCHANGED <<PROGRESS, CANCEL_FLAGS, cancel_ev, recognizer_vars,
                   cancel>>
    /\ UNCHANGED <<lock_vars, probe>>

\* a lookup that is never answered from the cache
FeaturesOf_NoLookup(cache, record) ==
    LET content == PhotoDir(record.image_filename)
    IN  IF ~content.exists \/ ~content.decoded
        THEN [ok |-> FALSE, features |-> ExtractFeatures(MissingFile),
              computed |-> FALSE]
        ELSE [ok |-> TRUE, features |-> ExtractFeatures(content),
              computed |-> TRUE]

\* a cache hit that returns the histogram alone, the shape and texture
\* features unset
FeaturesOf_StaleHit(cache, record) ==
    LET filename == record.image_filename
        content == PhotoDir(filename)
    IN  IF filename \in DOMAIN cache
        THEN [ok |-> TRUE,
              features |-> [ExtractFeatures(MissingFile) EXCEPT
                                !.hist = cache[filename].hist],
              computed |-> FALSE]
        ELSE IF ~content.exists \/ ~content.decoded
        THEN [ok |-> FALSE, features |-> ExtractFeatures(MissingFile),
              computed |-> FALSE]
        ELSE [ok |-> TRUE, features |-> ExtractFeatures(content),
              computed |-> TRUE]

\* _get_or_compute_features: the features of a record, None (ok = FALSE)
\* when the file is missing or unreadable
FeaturesOf(cache, record) ==
    LET filename == record.image_filename
        content == PhotoDir(filename)
    IN  IF filename \in DOMAIN cache
        THEN [ok |-> TRUE, features |-> cache[filename], computed |-> FALSE]
        ELSE IF ~content.exists \/ ~content.decoded
        THEN [ok |-> FALSE, features |-> ExtractFeatures(MissingFile),
              computed |-> FALSE]
        ELSE [ok |-> TRUE, features |-> ExtractFeatures(content),
              computed |-> TRUE]

\* _get_or_compute_orb: the descriptors of a file, from the cache or
\* computed; None is cached for a missing or unreadable file
OrbOf(cache, filename) ==
    LET content == PhotoDir(filename)
    IN  IF filename \in DOMAIN cache THEN cache[filename]
        ELSE IF ~content.exists \/ ~content.decoded THEN NoDescriptors
        ELSE ExtractOrb(content)

\* a candidate without features is skipped, one below the floor dropped
KeepResult_NoFloor(got, score) == got.ok

KeepResult(got, score) == got.ok /\ ~(score.similarity < MinSimilarity)

\* a counter incremented at every store
CountAfterStore_Increment(count, cache) == count + 1

\* image_recognition.py 229: self._computed_count = len(self._feature_cache)
CountAfterStore(count, cache) == Cardinality(DOMAIN cache)

\* image_recognition.py 877-979 after the features are fetched (got): the
\* candidate is skipped, or scored and kept or dropped, and the progress
\* is reported for a kept one
CompareAndReport(c, got) ==
    LET f == call[c].form
        uploaded == QueryOf(f.query).image
        total_candidates == Len(call[c].filtered)
        idx == call[c].idx + 1
        record == call[c].filtered[idx]
        filename == record.image_filename
        gate == got.ok /\ OrbGateOpen(uploaded, got.features)
        db_orb == IF gate THEN OrbOf(orb_cache, filename)
                  ELSE NoDescriptors
        score == ScoreCandidate(uploaded, got.features, db_orb)
        kept == KeepResult(got, score)
        next_pc == IF idx = total_candidates THEN "rank" ELSE "loop"
    IN  /\ orb_cache' =
               IF gate THEN Put(orb_cache, filename, db_orb)
               ELSE orb_cache
        /\ call' = [call EXCEPT ![c].pc = next_pc, ![c].idx = idx,
                      ![c].features = NoFeatures,
                      ![c].results =
                          IF kept THEN Append(@, ResultEntry(record, score))
                          ELSE @]
        /\ PROGRESS' =
               IF kept
               THEN OnProgress(PROGRESS, f.request_id, idx,
                               total_candidates)
               ELSE PROGRESS

\* _get_or_compute_features 207-225 on a miss: the lookup under the lock
\* finds no entry, the file is read and its features are computed
FetchFeatures(c) ==
    /\ call[c].pc = "score"
    /\ LET got == FeaturesOf(feature_cache,
                             call[c].filtered[call[c].idx + 1])
       IN  /\ got.computed
           /\ call' = [call EXCEPT ![c].pc = "store",
                         ![c].features = got.features]
    /\ UNCHANGED <<PROGRESS, CANCEL_FLAGS, cancel_ev, recognizer_vars,
                   cancel>>
    /\ UNCHANGED <<lock_vars, probe>>

\* _get_or_compute_features 227-229: the computed features are stored
\* under the lock and the counter is set; then the candidate is scored
StoreFeatures(c) ==
    /\ call[c].pc = "store"
    /\ feature_cache' =
           Put(feature_cache,
               call[c].filtered[call[c].idx + 1].image_filename,
               call[c].features)
    /\ computed_count' = CountAfterStore(computed_count, feature_cache')
    /\ CompareAndReport(c, [ok |-> TRUE, features |-> call[c].features,
                            computed |-> TRUE])
    /\ UNCHANGED <<CANCEL_FLAGS, cancel_ev, metadata_loaded, image_records,
                   features_loaded, preload, cancel>>
    /\ UNCHANGED <<lock_vars, probe>>

\* image_recognition.py 877-979 when the lookup is answered at once, from
\* the cache or with None for a file that is missing or unreadable
ScoreStep(c) ==
    /\ call[c].pc = "score"
    /\ LET got == FeaturesOf(feature_cache,
                             call[c].filtered[call[c].idx + 1])
       IN  /\ ~got.computed
           /\ CompareAndReport(c, got)
    /\ UNCHANGED <<CANCEL_FLAGS, cancel_ev, metadata_loaded, image_records,
                   feature_cache, computed_count, features_loaded, preload,
                   cancel>>
    /\ UNCHANGED <<lock_vars, probe>>

\* image_recognition.py 981-994: sort, report (total, total), truncate
Rank(c) ==
    /\ call[c].pc = "rank"
    /\ LET total_candidates == Len(call[c].filtered)
       IN  /\ \E top_k \in TopKs :
                  call' = [call EXCEPT ![c].pc = "finish_read",
                             ![c].form.top_k = top_k,
                             ![c].results =
                                 SliceTo(SortDescending(@), top_k)]
           /\ PROGRESS' = OnProgress(PROGRESS, call[c].form.request_id,
                                     total_candidates, total_candidates)
    /\ UNCHANGED <<CANCEL_FLAGS, cancel_ev, recognizer_vars, cancel>>
    /\ UNCHANGED <<lock_vars, probe>>

\* app.py 403-405, right-hand side: the Event of the call is read
FinishRead(c) ==
    /\ call[c].pc = "finish_read"
    /\ call' = [call EXCEPT ![c].pc = "finish_write",
                  ![c].status = IF cancel_ev[c] THEN "canceled" ELSE "done"]
    /\ UNCHANGED <<PROGRESS, CANCEL_FLAGS, cancel_ev, recognizer_vars,
                   cancel>>
    /\ UNCHANGED <<lock_vars, probe>>

\* app.py 403: the status is stored in the entry of the request id
FinishWrite(c) ==
    /\ call[c].pc = "finish_write"
    /\ PROGRESS' = [PROGRESS EXCEPT ![call[c].form.request_id].status =
                       call[c].status]
    /\ call' = [call EXCEPT ![c].pc = "cleanup"]
    /\ UNCHANGED <<CANCEL_FLAGS, cancel_ev, recognizer_vars, cancel>>
    /\ UNCHANGED <<lock_vars, probe>>

\* app.py 413-462: the answer of the handler
ResponseOf(f, results) ==
    IF results = <<>>
    THEN IF ~Falsy(f.filter_shape) \/ ~Falsy(f.filter_color)
         THEN [success |-> FALSE, message |-> "no_match_for_filters",
               data |-> <<>>]
         ELSE [success |-> FALSE, message |-> "cannot_recognize",
               data |-> <<>>]
    ELSE [success |-> TRUE, message |-> "feature_match", data |-> results]

\* app.py 406-462: the flag of the request id is removed, the handler answers
Respond(c) ==
    /\ call[c].pc = "cleanup"
    /\ CANCEL_FLAGS' = Pop(CANCEL_FLAGS, call[c].form.request_id)
    /\ call' = [call EXCEPT ![c].pc = "returned",
                  ![c].response = ResponseOf(call[c].form, call[c].results)]
    /\ UNCHANGED <<PROGRESS, cancel_ev, recognizer_vars, cancel>>
    /\ UNCHANGED <<lock_vars, probe>>

\* app.py 394-408 and 464-472 when recognize_drug raises: the extractors
\* of the upload (image_recognition.py 824-825) have no handler, so an
\* exception in them leaves recognize_drug; the status assignment of line
\* 403 is skipped, the finally clause removes the flag, and the handler
\* answers 500
FailWithException(c) ==
    /\ call[c].pc = "start"
    /\ CANCEL_FLAGS' = Pop(CANCEL_FLAGS, call[c].form.request_id)
    /\ call' = [call EXCEPT ![c].pc = "failed",
                  ![c].response = [success |-> FALSE,
                                   message |-> "error_500", data |-> <<>>]]
    /\ UNCHANGED <<PROGRESS, cancel_ev, recognizer_vars, cancel>>
    /\ UNCHANGED <<lock_vars, probe>>

\* ------------------------------------------------------------------------
\* The background preloader (_load_database_features), started by __init__
\* ------------------------------------------------------------------------
\* a loader that goes two records further
PreloadLimit_Further == 2 * 26

\* number of records whose features are computed ahead of the queries
PreloadLimit == 50

\* image_recognition.py 350-354: the metadata is loaded if no query did it
PreloadMetadata ==
    /\ preload.pc = "load_metadata"
    /\ metadata_loaded' = TRUE
    /\ image_records' = IF metadata_loaded THEN image_records ELSE DbRows
    /\ preload' = [preload EXCEPT !.pc = "features"]
    /\ UNCHANGED <<PROGRESS, CANCEL_FLAGS, cancel_ev, feature_cache, orb_cache,
                   computed_count, features_loaded, call, cancel>>
    /\ UNCHANGED <<lock_vars, probe>>

\* image_recognition.py 356-359: the features of one record of the prefix
\* are looked up; on a miss they are computed
PreloadFeatures ==
    /\ preload.pc = "features"
    /\ preload.next <= Min(PreloadLimit, Len(image_records))
    /\ LET got == FeaturesOf(feature_cache, image_records[preload.next])
       IN  preload' =
               IF got.computed
               THEN [preload EXCEPT !.pc = "store",
                                    !.features = got.features]
               ELSE [preload EXCEPT !.next = @ + 1,
                                    !.loaded = IF got.ok THEN @ + 1 ELSE @]
    /\ UNCHANGED <<PROGRESS, CANCEL_FLAGS, cancel_ev, metadata_loaded,
                   image_records, feature_cache, orb_cache, computed_count,
                   features_loaded, call, cancel>>
    /\ UNCHANGED <<lock_vars, probe>>

\* _get_or_compute_features 227-229 in the loader thread
PreloadStore ==
    /\ preload.pc = "store"
    /\ feature_cache' =
           Put(feature_cache, image_records[preload.next].image_filename,
               preload.features)
    /\ computed_count' = CountAfterStore(computed_count, feature_cache')
    /\ preload' = [preload EXCEPT !.pc = "features", !.next = @ + 1,
                                  !.loaded = @ + 1,
                                  !.features = NoFeatures]
    /\ UNCHANGED <<PROGRESS, CANCEL_FLAGS, cancel_ev, metadata_loaded,
                   image_records, orb_cache, features_loaded, call, cancel>>
    /\ UNCHANGED <<lock_vars, probe>>

\* image_recognition.py 361-362: the thread ends
PreloadDone ==
    /\ preload.pc = "features"
    /\ preload.next > Min(PreloadLimit, Len(image_records))
    /\ features_loaded' = (preload.loaded >= Len(image_records)
                           /\ Len(image_records) > 0)
    /\ preload' = [preload EXCEPT !.pc = "done"]
    /\ UNCHANGED <<PROGRESS, CANCEL_FLAGS, cancel_ev, metadata_loaded,
                   image_records, feature_cache, orb_cache, computed_count,
                   call, cancel>>
    /\ UNCHANGED <<lock_vars, probe>>

\* ------------------------------------------------------------------------
\* reload_feature_cache, called once the loader started by __init__ has
\* ended; the loader then runs again, in the caller's thread or a new one
\* ------------------------------------------------------------------------
\* a reload that empties the record list and leaves its flag set
ReloadFeatureCache_DropsRecords ==
    /\ preload.pc = "done"
    /\ preload.reloads < MaxReloads
    /\ features_loaded' = FALSE
    /\ feature_cache' = <<>>
    /\ image_records' = <<>>
    /\ computed_count' = 0
    /\ preload' = [pc |-> "load_metadata", next |-> 1, loaded |-> 0,
                   features |-> NoFeatures, reloads |-> preload.reloads + 1]
    /\ UNCHANGED <<PROGRESS, CANCEL_FLAGS, cancel_ev, metadata_loaded,
                   orb_cache, call, cancel>>
    /\ UNCHANGED <<lock_vars, probe>>

\* image_recognition.py 374-380: flags, cache and counter are reset under
\* the lock; the keypoint cache and the record list are left as they are
ReloadFeatureCache ==
    /\ preload.pc = "done"
    /\ preload.reloads < MaxReloads
    /\ features_loaded' = FALSE
    /\ feature_cache' = <<>>
    /\ metadata_loaded' = FALSE
    /\ computed_count' = 0
    /\ preload' = [pc |-> "load_metadata", next |-> 1, loaded |-> 0,
                   features |-> NoFeatures, reloads |-> preload.reloads + 1]
    /\ UNCHANGED <<PROGRESS, CANCEL_FLAGS, cancel_ev, image_records,
                   orb_cache, call, cancel>>
    /\ UNCHANGED <<lock_vars, probe>>

\* ------------------------------------------------------------------------
\* /api/cancel (app.py cancel_request)
\* ------------------------------------------------------------------------
\* app.py 502-507: the body is read and the flag of the id looked up; a
\* body without request_id is answered 400
CancelBegin(k) ==
    /\ cancel[k].pc \in {"idle", "returned"}
    /\ \E req_id \in RequestIds \cup {NoId} :
          IF req_id = NoId
          THEN /\ cancel' = [cancel EXCEPT ![k].pc = "returned",
                                ![k].req_id = NoId, ![k].ev = "none",
                                ![k].done = 0, ![k].total = 0,
                                ![k].reply = "error_400"]
          ELSE /\ cancel' = [cancel EXCEPT
                                ![k].pc = IF req_id \in DOMAIN CANCEL_FLAGS
                                          THEN "set" ELSE "write_absent",
                                ![k].req_id = req_id,
                                ![k].ev = IF req_id \in DOMAIN CANCEL_FLAGS
                                          THEN CANCEL_FLAGS[req_id]
                                          ELSE "none",
                                ![k].done = 0, ![k].total = 0,
                                ![k].reply = "none"]
    /\ UNCHANGED <<PROGRESS, CANCEL_FLAGS, cancel_ev, recognizer_vars, call>>
    /\ UNCHANGED <<lock_vars, probe>>

\* an unknown id answered as an error
CancelWriteAbsent_NotFound(k) ==
    /\ cancel[k].pc = "write_absent"
    /\ PROGRESS' = Put(PROGRESS, cancel[k].req_id,
                       ProgressEntry(0, 0, "canceled"))
    /\ cancel' = [cancel EXCEPT ![k].pc = "returned", ![k].ev = "none",
                    ![k].done = 0, ![k].total = 0, ![k].reply = "error_404"]
    /\ UNCHANGED <<CANCEL_FLAGS, cancel_ev, recognizer_vars, call>>
    /\ UNCHANGED <<lock_vars, probe>>

\* a cancel of an id without flag that marks every entry canceled
CancelWriteAbsent_Everywhere(k) ==
    /\ cancel[k].pc = "write_absent"
    /\ PROGRESS' = [x \in DOMAIN PROGRESS \cup {cancel[k].req_id} |->
                       IF x = cancel[k].req_id
                       THEN ProgressEntry(0, 0, "canceled")
                       ELSE [PROGRESS[x] EXCEPT !.status = "canceled"]]
    /\ cancel' = [cancel EXCEPT ![k].pc = "returned", ![k].ev = "none",
                    ![k].done = 0, ![k].total = 0, ![k].reply = "success"]
    /\ UNCHANGED <<CANCEL_FLAGS, cancel_ev, recognizer_vars, call>>
    /\ UNCHANGED <<lock_vars, probe>>

\* app.py 507-515: no flag under the id
CancelWriteAbsent(k) ==
    /\ cancel[k].pc = "write_absent"
    /\ PROGRESS' = Put(PROGRESS, cancel[k].req_id,
                       ProgressEntry(0, 0, "canceled"))
    /\ cancel' = [cancel EXCEPT ![k].pc = "returned", ![k].ev = "none",
                    ![k].done = 0, ![k].total = 0, ![k].reply = "success"]
    /\ UNCHANGED <<CANCEL_FLAGS, cancel_ev, recognizer_vars, call>>
    /\ UNCHANGED <<lock_vars, probe>>

\* app.py 518: ev.set()
CancelSet(k) ==
    /\ cancel[k].pc = "set"
    /\ cancel_ev' = [cancel_ev EXCEPT ![cancel[k].ev] = TRUE]
    /\ cancel' = [cancel EXCEPT ![k].pc = "read_done"]
    /\ UNCHANGED <<PROGRESS, CANCEL_FLAGS, recognizer_vars, call>>
    /\ UNCHANGED <<lock_vars, probe>>

\* app.py 520: PROGRESS.get(req_id, {}).get("done", 0)
CancelReadDone(k) ==
    /\ cancel[k].pc = "read_done"
    /\ cancel' = [cancel EXCEPT ![k].pc = "read_total",
                    ![k].done = IF cancel[k].req_id \in DOMAIN PROGRESS
                                THEN PROGRESS[cancel[k].req_id].done ELSE 0]
    /\ UNCHANGED <<PROGRESS, CANCEL_FLAGS, cancel_ev, recognizer_vars, call>>
    /\ UNCHANGED <<lock_vars, probe>>

\* app.py 521: PROGRESS.get(req_id, {}).get("total", 0)
CancelReadTotal(k) ==
    /\ cancel[k].pc = "read_total"
    /\ cancel' = [cancel EXCEPT ![k].pc = "write",
                    ![k].total = IF cancel[k].req_id \in DOMAIN PROGRESS
                                 THEN PROGRESS[cancel[k].req_id].total ELSE 0]
    /\ UNCHANGED <<PROGRESS, CANCEL_FLAGS, cancel_ev, recognizer_vars, call>>
    /\ UNCHANGED <<lock_vars, probe>>

\* app.py 519-525: the entry is replaced, the handler answers
CancelWrite(k) ==
    /\ cancel[k].pc = "write"
    /\ PROGRESS' = Put(PROGRESS, cancel[k].req_id,
                       ProgressEntry(cancel[k].done, cancel[k].total,
                                     "canceled"))
    /\ cancel' = [cancel EXCEPT ![k].pc = "returned", ![k].ev = "none",
                    ![k].done = 0, ![k].total = 0, ![k].reply = "success"]
    /\ UNCHANGED <<CANCEL_FLAGS, cancel_ev, recognizer_vars, call>>
    /\ UNCHANGED <<lock_vars, probe>>

\* ------------------------------------------------------------------------
\* /api/progress/<request_id> (app.py get_progress)
\* ------------------------------------------------------------------------
\* a lookup that answers 'running' for an id without entry
ProgressOf_Running(progress, request_id) ==
    IF request_id \in DOMAIN progress
    THEN [request_id |-> request_id, success |-> TRUE,
          status |-> progress[request_id].status,
          done |-> progress[request_id].done,
          total |-> progress[request_id].total]
    ELSE [request_id |-> request_id, success |-> FALSE,
          status |-> "running", done |-> 0, total |-> 0]

ProgressOf(progress, request_id) ==
    IF request_id \in DOMAIN progress
    THEN [request_id |-> request_id, success |-> TRUE,
          status |-> progress[request_id].status,
          done |-> progress[request_id].done,
          total |-> progress[request_id].total]
    ELSE [request_id |-> request_id, success |-> FALSE,
          status |-> "unknown", done |-> 0, total |-> 0]

\* ------------------------------------------------------------------------
\* Specification
\* ------------------------------------------------------------------------
RecognizeStep(c) ==
    \/ RegisterFlag(c)
    \/ RegisterProgress(c)
    \/ StartScan(c)
    \/ CheckCancelled(c)
    \/ FetchFeatures(c)
    \/ StoreFeatures(c)
    \/ ScoreStep(c)
    \/ Rank(c)
    \/ FinishRead(c)
    \/ FinishWrite(c)
    \/ Respond(c)
    \/ FailWithException(c)

CancelStep(k) ==
    \/ CancelBegin(k)
    \/ CancelWriteAbsent(k)
    \/ CancelSet(k)
    \/ CancelReadDone(k)
    \/ CancelReadTotal(k)
    \/ CancelWrite(k)

FirstCall == "c1"

PreloadStep ==
    \/ PreloadMetadata
    \/ PreloadFeatures
    \/ PreloadStore
    \/ PreloadDone

\* one /api/recognize request, served while clients send any number of
\* /api/cancel requests, in the schedules in which the loader thread has
\* not run yet (ReloadSpec below has the loader)
Next ==
    \/ RecognizeStep(FirstCall)
    \/ \E k \in CancelHandlers : CancelStep(k)

Spec == Init /\ [][Next]_vars

\* two /api/recognize requests served by concurrent handler threads, in
\* the schedules in which the loader thread has not run yet; both
\* upload the yellow round pill without filters, top_k = 1
PairInputs ==
    \A c \in Calls :
        /\ call[c].form.query \in {"none", "yellow_round"}
        /\ call[c].form.filter_shape = <<>>
        /\ call[c].form.filter_color = <<>>
        /\ call[c].form.top_k \in {0, 1}
        /\ call[c].pc \in {"finish_read", "finish_write", "cleanup",
                           "returned"} => call[c].form.top_k = 1

PairNext ==
    /\ \/ \E c \in Calls : RecognizeStep(c)
       \/ \E k \in CancelHandlers : CancelStep(k)
    /\ PairInputs'

PairSpec == Init /\ [][PairNext]_vars

\* one /api/recognize request, served while the cache is warmed up and
\* reloaded
ReloadNext ==
    \/ RecognizeStep(FirstCall)
    \/ PreloadStep
    \/ ReloadFeatureCache

ReloadSpec == Init /\ [][ReloadNext]_vars

\* The fusion of image_recognition.py 925-951 on its own: the four
\* similarities of a candidate are drawn around the thresholds of the
\* penalties, and the final score is computed from them
ProbeColors == {0, 299, 349, 350, 351, 499, 500, 501, 1000}

ProbeShapes == {0, 5999, 6000, 6001, 7999, 8000, 8001, 20000}

ProbeTextures == {0, 600, 1000}

ProbeImprints == {0, 666, 1500}

ScoreInit ==
    /\ InitProgram
    /\ probe \in [pc : {"drawn"}, color : ProbeColors, shape : ProbeShapes,
                  texture : ProbeTextures, imprint : ProbeImprints,
                  similarity : {0}]

ApplyFusion ==
    /\ probe.pc = "drawn"
    /\ probe' = [probe EXCEPT !.pc = "scored",
                   !.similarity =
                       OverallSimilarity(probe.color, probe.shape,
                                         probe.texture, probe.imprint)]
    /\ UNCHANGED <<PROGRESS, CANCEL_FLAGS, cancel_ev, recognizer_vars, call,
                   cancel, lock_vars>>

ScoreNext == ApplyFusion

ScoreSpec == ScoreInit /\ [][ScoreNext]_vars

\* ------------------------------------------------------------------------
\* The lock discipline: the loader started by __init__, a thread that runs
\* reload_feature_cache, and the scans of /api/recognize, each step of
\* _load_image_metadata, _get_or_compute_features and reload_feature_cache
\* taken on its own, while sync_images.py rewrites the rows of the store
\* ------------------------------------------------------------------------
\* the file sync_images.py finds for the second drug when it is run again
ResyncedFile == 2 + 2 * Len(ImageKinds)

\* the rows the SELECT yields before and after sync_images.py has replaced
\* the image row of the second drug
StoreRows(version) ==
    IF version = 0 THEN DbRows
    ELSE [i \in DOMAIN DbRows |->
             IF DbRows[i].drug_id = 2
             THEN [DbRows[i] EXCEPT !.image_filename = ResyncedFile]
             ELSE DbRows[i]]

\* sync_images.py 61-113 with force: the image rows of a drug are deleted
\* and rows for the files found are inserted
ChangeCorpus ==
    /\ store_version = 0
    /\ store_version' = 1
    /\ UNCHANGED <<PROGRESS, CANCEL_FLAGS, cancel_ev, recognizer_vars, call,
                   cancel, load_lock, store_queries, store_loaded, worker,
                   probe>>

\* what a step of a loader thread leaves alone besides the recognizer
WorkerFrame ==
    UNCHANGED <<PROGRESS, CANCEL_FLAGS, cancel_ev, preload, call, cancel,
                store_version, probe>>

\* how often 376-377 have cleared the cache
ClearsDone ==
    IF worker[ReloadThread].pc \in {"reload_lock", "reload_clear_cache"}
    THEN worker[ReloadThread].reloads - 1
    ELSE worker[ReloadThread].reloads

\* reload_feature_cache 371-385: the caller runs _reload itself (sync) or
\* starts a thread for it (async)
ReloadCall(w) ==
    /\ w = ReloadThread
    /\ worker[w].pc \in {"idle", "done"}
    /\ worker[w].reloads < MaxReloads
    /\ \E mode \in {"sync", "async"} :
          worker' = [worker EXCEPT ![w] =
                        [NoWorker EXCEPT !.pc = "reload_lock",
                                         !.mode = mode,
                                         !.reloads = worker[w].reloads + 1]]
    /\ WorkerFrame
    /\ UNCHANGED <<recognizer_vars, load_lock, store_queries, store_loaded>>

\* 375: the lock is taken
ReloadAcquire(w) ==
    /\ worker[w].pc = "reload_lock"
    /\ load_lock = NoThread
    /\ load_lock' = w
    /\ worker' = [worker EXCEPT ![w].pc = "reload_clear_cache"]
    /\ WorkerFrame
    /\ UNCHANGED <<recognizer_vars, store_queries, store_loaded>>

\* 376-377
ReloadClearCache(w) ==
    /\ worker[w].pc = "reload_clear_cache"
    /\ features_loaded' = FALSE
    /\ feature_cache' = <<>>
    /\ worker' = [worker EXCEPT ![w].pc = "reload_clear_flag"]
    /\ WorkerFrame
    /\ UNCHANGED <<metadata_loaded, image_records, orb_cache, computed_count,
                   load_lock, store_queries, store_loaded>>

\* a reload that leaves the counter as it is
ReloadClearFlag_KeepCount(w) ==
    /\ worker[w].pc = "reload_clear_flag"
    /\ metadata_loaded' = FALSE
    /\ load_lock' = NoThread
    /\ store_queries' = 0
    /\ store_loaded' = <<>>
    /\ worker' = [worker EXCEPT ![w].pc = "meta_check"]
    /\ WorkerFrame
    /\ UNCHANGED <<image_records, feature_cache, orb_cache, computed_count,
                   features_loaded>>

\* 378-380: the flag and the counter are reset, the lock is released and
\* _load_database_features is entered
ReloadClearFlag(w) ==
    /\ worker[w].pc = "reload_clear_flag"
    /\ metadata_loaded' = FALSE
    /\ computed_count' = 0
    /\ load_lock' = NoThread
    /\ store_queries' = 0
    /\ store_loaded' = <<>>
    /\ worker' = [worker EXCEPT ![w].pc = "meta_check"]
    /\ WorkerFrame
    /\ UNCHANGED <<image_records, feature_cache, orb_cache, features_loaded>>

\* _load_image_metadata 158-159: the check outside the lock
LoaderMetadataCheck(w) ==
    /\ worker[w].pc = "meta_check"
    /\ worker' = [worker EXCEPT ![w].pc =
                     IF metadata_loaded THEN "snapshot" ELSE "meta_lock"]
    /\ WorkerFrame
    /\ UNCHANGED <<recognizer_vars, load_lock, store_queries, store_loaded>>

\* 161
LoaderMetadataAcquire(w) ==
    /\ worker[w].pc = "meta_lock"
    /\ load_lock = NoThread
    /\ load_lock' = w
    /\ worker' = [worker EXCEPT ![w].pc = "meta_recheck"]
    /\ WorkerFrame
    /\ UNCHANGED <<recognizer_vars, store_queries, store_loaded>>

\* a thread that queries the store without looking at the flag again
LoaderMetadataRecheck_NoRecheck(w) ==
    /\ worker[w].pc = "meta_recheck"
    /\ worker' = [worker EXCEPT ![w].pc = "meta_query"]
    /\ WorkerFrame
    /\ UNCHANGED <<recognizer_vars, load_lock, store_queries, store_loaded>>

\* 162-163: the check under the lock
LoaderMetadataRecheck(w) ==
    /\ worker[w].pc = "meta_recheck"
    /\ IF metadata_loaded
       THEN /\ load_lock' = NoThread
            /\ worker' = [worker EXCEPT ![w].pc = "snapshot"]
       ELSE /\ worker' = [worker EXCEPT ![w].pc = "meta_query"]
            /\ UNCHANGED load_lock
    /\ WorkerFrame
    /\ UNCHANGED <<recognizer_vars, store_queries, store_loaded>>

\* 165-190: the SELECT yields the rows and the list is replaced; 192-200:
\* the query fails, the list is emptied, the flag stays unset and the lock
\* is released
LoaderMetadataQuery(w) ==
    /\ worker[w].pc = "meta_query"
    /\ store_queries' = store_queries + 1
    /\ \/ /\ image_records' = StoreRows(store_version)
          /\ store_loaded' = Append(store_loaded, image_records')
          /\ worker' = [worker EXCEPT ![w].pc = "meta_flag"]
          /\ UNCHANGED load_lock
       \/ /\ image_records' = <<>>
          /\ load_lock' = NoThread
          /\ worker' = [worker EXCEPT ![w].pc = "snapshot"]
          /\ UNCHANGED store_loaded
    /\ WorkerFrame
    /\ UNCHANGED <<metadata_loaded, feature_cache, orb_cache, computed_count,
                   features_loaded>>

\* 191 and the end of the with block
LoaderMetadataFlag(w) ==
    /\ worker[w].pc = "meta_flag"
    /\ metadata_loaded' = TRUE
    /\ load_lock' = NoThread
    /\ worker' = [worker EXCEPT ![w].pc = "snapshot"]
    /\ WorkerFrame
    /\ UNCHANGED <<image_records, feature_cache, orb_cache, computed_count,
                   features_loaded, store_queries, store_loaded>>

\* _load_database_features 352-357: the length and the prefix of the list
\* are read once, before the loop
LoaderSnapshot(w) ==
    /\ worker[w].pc = "snapshot"
    /\ worker' = [worker EXCEPT ![w].pc = "lookup",
                    ![w].records = image_records, ![w].next = 1,
                    ![w].loaded = 0]
    /\ WorkerFrame
    /\ UNCHANGED <<recognizer_vars, load_lock, store_queries, store_loaded>>

\* _get_or_compute_features 207-225 in a loader thread: the lookup under
\* the lock; a record with a cached or an unusable file is done, for any
\* other the features are computed outside the lock
LoaderLookup(w) ==
    /\ worker[w].pc = "lookup"
    /\ worker[w].next <= Min(PreloadLimit, Len(worker[w].records))
    /\ load_lock = NoThread
    /\ LET got == FeaturesOf(feature_cache,
                             worker[w].records[worker[w].next])
       IN  worker' =
               IF got.computed
               THEN [worker EXCEPT ![w].pc = "store_lock",
                                   ![w].features = got.features,
                                   ![w].epoch = ClearsDone]
               ELSE [worker EXCEPT ![w].next = @ + 1,
                                   ![w].loaded =
                                       IF got.ok THEN @ + 1 ELSE @]
    /\ WorkerFrame
    /\ UNCHANGED <<recognizer_vars, load_lock, store_queries, store_loaded>>

\* a thread that enters the block of 227 without waiting for the lock
LoaderStoreAcquire_NoLock(w) ==
    /\ worker[w].pc = "store_lock"
    /\ load_lock' = w
    /\ worker' = [worker EXCEPT ![w].pc = "store_insert"]
    /\ WorkerFrame
    /\ UNCHANGED <<recognizer_vars, store_queries, store_loaded>>

\* 227
LoaderStoreAcquire(w) ==
    /\ worker[w].pc = "store_lock"
    /\ load_lock = NoThread
    /\ load_lock' = w
    /\ worker' = [worker EXCEPT ![w].pc = "store_insert"]
    /\ WorkerFrame
    /\ UNCHANGED <<recognizer_vars, store_queries, store_loaded>>

\* 228
LoaderStoreInsert(w) ==
    /\ worker[w].pc = "store_insert"
    /\ feature_cache' =
           Put(feature_cache,
               worker[w].records[worker[w].next].image_filename,
               worker[w].features)
    /\ worker' = [worker EXCEPT ![w].pc = "store_count"]
    /\ WorkerFrame
    /\ UNCHANGED <<metadata_loaded, image_records, orb_cache, computed_count,
                   features_loaded, load_lock, store_queries, store_loaded>>

\* 229 and the end of the with block
LoaderStoreCount(w) ==
    /\ worker[w].pc = "store_count"
    /\ computed_count' = CountAfterStore(computed_count, feature_cache)
    /\ load_lock' = NoThread
    /\ worker' = [worker EXCEPT ![w].pc = "lookup", ![w].next = @ + 1,
                    ![w].loaded = @ + 1, ![w].features = NoFeatures,
                    ![w].epoch = 0]
    /\ WorkerFrame
    /\ UNCHANGED <<metadata_loaded, image_records, feature_cache, orb_cache,
                   features_loaded, store_queries, store_loaded>>

\* 361-362: the flag of the preload is set under the lock and the loader
\* returns; a sync reload_feature_cache returns with it
LoaderFinish(w) ==
    /\ worker[w].pc = "lookup"
    /\ worker[w].next > Min(PreloadLimit, Len(worker[w].records))
    /\ load_lock = NoThread
    /\ features_loaded' = (worker[w].loaded >= Len(worker[w].records)
                           /\ Len(worker[w].records) > 0)
    /\ worker' = [worker EXCEPT ![w].pc = "done", ![w].records = <<>>,
                    ![w].next = 1, ![w].loaded = 0]
    /\ WorkerFrame
    /\ UNCHANGED <<metadata_loaded, image_records, feature_cache, orb_cache,
                   computed_count, load_lock, store_queries, store_loaded>>

WorkerStep(w) ==
    \/ ReloadCall(w)
    \/ ReloadAcquire(w)
    \/ ReloadClearCache(w)
    \/ ReloadClearFlag(w)
    \/ LoaderMetadataCheck(w)
    \/ LoaderMetadataAcquire(w)
    \/ LoaderMetadataRecheck(w)
    \/ LoaderMetadataQuery(w)
    \/ LoaderMetadataFlag(w)
    \/ LoaderSnapshot(w)
    \/ LoaderLookup(w)
    \/ LoaderStoreAcquire(w)
    \/ LoaderStoreInsert(w)
    \/ LoaderStoreCount(w)
    \/ LoaderFinish(w)

\* what a step of a scan on the recognizer leaves alone
ScanFrame ==
    UNCHANGED <<CANCEL_FLAGS, cancel_ev, preload, cancel, store_version,
                worker, probe>>

\* recognize_drug 818-826: the upload is decoded and its features are
\* extracted; an upload that cannot be decoded returns []
ScanBegin(c) ==
    /\ call[c].pc = "start"
    /\ \E q \in QueryImages, filter_shape \in FilterShapes,
          filter_color \in FilterColors, top_k \in TopKs :
       LET f == [call[c].form EXCEPT !.query = q.name,
                                     !.filter_shape = filter_shape,
                                     !.filter_color = filter_color]
       IN  call' =
               IF ~q.image.decoded
               THEN [call EXCEPT ![c].pc = "finish_read",
                                 ![c].form = [f EXCEPT !.top_k = top_k],
                                 ![c].results = <<>>]
               ELSE [call EXCEPT ![c].pc = "meta_check", ![c].form = f]
    /\ ScanFrame
    /\ UNCHANGED <<PROGRESS, recognizer_vars, load_lock, store_queries,
                   store_loaded>>

\* _load_image_metadata 158-159, called at 829
ScanMetadataCheck(c) ==
    /\ call[c].pc = "meta_check"
    /\ call' = [call EXCEPT ![c].pc =
                   IF metadata_loaded THEN "filter" ELSE "meta_lock"]
    /\ ScanFrame
    /\ UNCHANGED <<PROGRESS, recognizer_vars, load_lock, store_queries,
                   store_loaded>>

\* 161
ScanMetadataAcquire(c) ==
    /\ call[c].pc = "meta_lock"
    /\ load_lock = NoThread
    /\ load_lock' = c
    /\ call' = [call EXCEPT ![c].pc = "meta_recheck"]
    /\ ScanFrame
    /\ UNCHANGED <<PROGRESS, recognizer_vars, store_queries, store_loaded>>

\* 162-163
ScanMetadataRecheck(c) ==
    /\ call[c].pc = "meta_recheck"
    /\ IF metadata_loaded
       THEN /\ load_lock' = NoThread
            /\ call' = [call EXCEPT ![c].pc = "filter"]
       ELSE /\ call' = [call EXCEPT ![c].pc = "meta_query"]
            /\ UNCHANGED load_lock
    /\ ScanFrame
    /\ UNCHANGED <<PROGRESS, recognizer_vars, store_queries, store_loaded>>

\* a failed query that marks the metadata as loaded
ScanMetadataQuery_FailureSticks(c) ==
    /\ call[c].pc = "meta_query"
    /\ store_queries' = store_queries + 1
    /\ \/ /\ image_records' = StoreRows(store_version)
          /\ store_loaded' = Append(store_loaded, image_records')
          /\ call' = [call EXCEPT ![c].pc = "meta_flag"]
          /\ UNCHANGED <<load_lock, metadata_loaded>>
       \/ /\ image_records' = <<>>
          /\ metadata_loaded' = TRUE
          /\ load_lock' = NoThread
          /\ call' = [call EXCEPT ![c].pc = "filter"]
          /\ UNCHANGED store_loaded
    /\ ScanFrame
    /\ UNCHANGED <<PROGRESS, feature_cache, orb_cache, computed_count,
                   features_loaded>>

\* 165-190, or 192-200 when the query fails
ScanMetadataQuery(c) ==
    /\ call[c].pc = "meta_query"
    /\ store_queries' = store_queries + 1
    /\ \/ /\ image_records' = StoreRows(store_version)
          /\ store_loaded' = Append(store_loaded, image_records')
          /\ call' = [call EXCEPT ![c].pc = "meta_flag"]
          /\ UNCHANGED load_lock
       \/ /\ image_records' = <<>>
          /\ load_lock' = NoThread
          /\ call' = [call EXCEPT ![c].pc = "filter"]
          /\ UNCHANGED store_loaded
    /\ ScanFrame
    /\ UNCHANGED <<PROGRESS, metadata_loaded, feature_cache, orb_cache,
                   computed_count, features_loaded>>

\* 191 and the end of the with block
ScanMetadataFlag(c) ==
    /\ call[c].pc = "meta_flag"
    /\ metadata_loaded' = TRUE
    /\ load_lock' = NoThread
    /\ call' = [call EXCEPT ![c].pc = "filter"]
    /\ ScanFrame
    /\ UNCHANGED <<PROGRESS, image_records, feature_cache, orb_cache,
                   computed_count, features_loaded, store_queries,
                   store_loaded>>

\* 832-871: the candidates are taken from the list as it is now and
\* (0, total) is reported; no record or no candidate returns []
ScanFilter(c) ==
    /\ call[c].pc = "filter"
    /\ LET f == call[c].form
           filtered_records ==
               FilteredRecords(image_records, QueryOf(f.query),
                               f.filter_shape, f.filter_color)
       IN  IF image_records = <<>> \/ filtered_records = <<>>
           THEN /\ \E top_k \in TopKs :
                      call' = [call EXCEPT ![c].pc = "finish_read",
                                 ![c].form.top_k = top_k,
                                 ![c].results = <<>>]
                /\ UNCHANGED PROGRESS
           ELSE /\ call' = [call EXCEPT ![c].pc = "loop",
                              ![c].filtered = filtered_records,
                              ![c].idx = 0, ![c].results = <<>>]
                /\ PROGRESS' = OnProgress(PROGRESS, f.request_id, 0,
                                          Len(filtered_records))
    /\ ScanFrame
    /\ UNCHANGED <<recognizer_vars, load_lock, store_queries, store_loaded>>

\* the candidate a scan is at
CandidateOf(c) == call[c].filtered[call[c].idx + 1]

\* 877-979 of an iteration whose features were fetched (got): the
\* keypoint cache is read and written under the lock when the gate is open
ScanCompare(c, got) ==
    /\ (got.ok /\ OrbGateOpen(QueryOf(call[c].form.query).image,
                              got.features))
           => load_lock = NoThread
    /\ CompareAndReport(c, got)
    /\ ScanFrame
    /\ UNCHANGED <<metadata_loaded, image_records, feature_cache,
                   computed_count, features_loaded, load_lock, store_queries,
                   store_loaded>>

\* _get_or_compute_features 207-225 in a scan: the lookup under the lock;
\* a candidate with cached features or an unusable file is compared or
\* skipped at once, for any other the features are computed
ScanLookup(c) ==
    /\ call[c].pc = "score"
    /\ load_lock = NoThread
    /\ LET got == FeaturesOf(feature_cache, CandidateOf(c))
       IN  IF got.computed
           THEN /\ call' = [call EXCEPT ![c].pc = "store_lock",
                              ![c].features = got.features,
                              ![c].epoch = ClearsDone]
                /\ ScanFrame
                /\ UNCHANGED <<PROGRESS, recognizer_vars, load_lock,
                               store_queries, store_loaded>>
           ELSE ScanCompare(c, got)

\* 227
ScanStoreAcquire(c) ==
    /\ call[c].pc = "store_lock"
    /\ load_lock = NoThread
    /\ load_lock' = c
    /\ call' = [call EXCEPT ![c].pc = "store_insert"]
    /\ ScanFrame
    /\ UNCHANGED <<PROGRESS, recognizer_vars, store_queries, store_loaded>>

\* 228
ScanStoreInsert(c) ==
    /\ call[c].pc = "store_insert"
    /\ feature_cache' =
           Put(feature_cache, CandidateOf(c).image_filename,
               call[c].features)
    /\ call' = [call EXCEPT ![c].pc = "store_count"]
    /\ ScanFrame
    /\ UNCHANGED <<PROGRESS, metadata_loaded, image_records, orb_cache,
                   computed_count, features_loaded, load_lock, store_queries,
                   store_loaded>>

\* 229 and the end of the with block
ScanStoreCount(c) ==
    /\ call[c].pc = "store_count"
    /\ computed_count' = CountAfterStore(computed_count, feature_cache)
    /\ load_lock' = NoThread
    /\ call' = [call EXCEPT ![c].pc = "compare", ![c].epoch = 0]
    /\ ScanFrame
    /\ UNCHANGED <<PROGRESS, metadata_loaded, image_records, feature_cache,
                   orb_cache, features_loaded, store_queries, store_loaded>>

\* 877-979 for a candidate whose features were computed and stored
ScanScoreComputed(c) ==
    /\ call[c].pc = "compare"
    /\ ScanCompare(c, [ok |-> TRUE, features |-> call[c].features,
                       computed |-> TRUE])

ScanStep(c) ==
    \/ RegisterFlag(c)
    \/ RegisterProgress(c)
    \/ ScanBegin(c)
    \/ ScanMetadataCheck(c)
    \/ ScanMetadataAcquire(c)
    \/ ScanMetadataRecheck(c)
    \/ ScanMetadataQuery(c)
    \/ ScanMetadataFlag(c)
    \/ ScanFilter(c)
    \/ CheckCancelled(c)
    \/ ScanLookup(c)
    \/ ScanStoreAcquire(c)
    \/ ScanStoreInsert(c)
    \/ ScanStoreCount(c)
    \/ ScanScoreComputed(c)
    \/ Rank(c)
    \/ FinishRead(c)
    \/ FinishWrite(c)
    \/ Respond(c)

\* the requests of this specification upload the white round pill with
\* the filters round and white, top_k = 1, each under its own request id
LockInputs ==
    \A c \in Calls :
        /\ call[c].form.query \in {"none", "white_round"}
        /\ call[c].form.query = "white_round"
               => /\ call[c].form.filter_shape = ShapeRound
                  /\ call[c].form.filter_color = <<"bai">>
        /\ call[c].form.top_k \in {0, 1}
        /\ call[c].pc \in {"finish_read", "finish_write", "cleanup",
                           "returned"} => call[c].form.top_k = 1
        /\ call[c].form.request_id
               \in {NoId, IF c = FirstCall THEN "r1" ELSE "r2"}

LockNext ==
    /\ \/ ScanStep(FirstCall)
       \/ \E w \in Workers : WorkerStep(w)
       \/ ChangeCorpus
    /\ LockInputs'

LockSpec == Init /\ [][LockNext]_vars

\* ------------------------------------------------------------------------
\* A request served before reload_feature_cache and one served after it
\* ------------------------------------------------------------------------
SecondCall == CHOOSE c \in Calls : c # FirstCall

\* the first request is served before the reload begins, the second
\* arrives when the reload has completed; both upload the white round
\* pill with the filters round and white, each under its own request id
StaleInputs ==
    /\ \A c \in Calls :
          /\ call[c].form.query \in {"none", "white_round"}
          /\ call[c].form.query = "white_round"
                 => /\ call[c].form.filter_shape = ShapeRound
                    /\ call[c].form.filter_color = <<"bai">>
          /\ call[c].form.request_id
                 \in {NoId, IF c = FirstCall THEN "r1" ELSE "r2"}
    /\ ~call[FirstCall].after_reload
    /\ preload.reloads > 0
           => call[FirstCall].pc \in {"idle", "returned", "failed"}
    /\ call[SecondCall].pc # "idle" => call[SecondCall].after_reload

StaleNext ==
    /\ \/ \E c \in Calls : RecognizeStep(c)
       \/ PreloadStep
       \/ ReloadFeatureCache
    /\ StaleInputs'

StaleSpec == Init /\ [][StaleNext]_vars

\* ------------------------------------------------------------------------
\* The preloader on a store with more rows than it loads ahead
\* ------------------------------------------------------------------------
\* the largest number of rows of the store
MaxStoreRows == 52

\* the numbers of rows of the store: none, and around the preload limit
StoreSizes ==
    {0, PreloadLimit - 1, PreloadLimit, PreloadLimit + 1, MaxStoreRows}

\* the rows of a store with n rows, in store order
LongRows(n) ==
    [i \in 1 .. n |->
        [drug_id |-> i, shape |-> KindOf(i).shape, color |-> KindOf(i).color,
         image_filename |-> i]]

\* image_recognition.py 350 on a store with n rows: the loader is the
\* first to load the metadata
PreloadMetadataOfStore ==
    /\ preload.pc = "load_metadata"
    /\ ~metadata_loaded
    /\ \E n \in StoreSizes : image_records' = LongRows(n)
    /\ metadata_loaded' = TRUE
    /\ preload' = [preload EXCEPT !.pc = "features"]
    /\ UNCHANGED <<PROGRESS, CANCEL_FLAGS, cancel_ev, feature_cache, orb_cache,
                   computed_count, features_loaded, call, cancel>>
    /\ UNCHANGED <<lock_vars, probe>>

\* the request arrives when the loader has loaded the metadata; it
\* uploads the yellow round pill without filters, top_k = 1
PrefixInputs ==
    LET c == FirstCall
    IN  /\ call[c].form.query \in {"none", "yellow_round"}
        /\ call[c].form.filter_shape = <<>>
        /\ call[c].form.filter_color = <<>>
        /\ call[c].form.top_k \in {0, 1}
        /\ call[c].form.request_id \in {NoId, "r1"}
        /\ call[c].pc \in {"finish_read", "finish_write", "cleanup",
                           "returned"} => call[c].form.top_k = 1
        /\ call[c].pc \notin {"idle", "register_progress", "start", "failed"}
               => preload.pc # "load_metadata"

PrefixNext ==
    /\ \/ RecognizeStep(FirstCall)
       \/ PreloadMetadataOfStore
       \/ PreloadFeatures
       \/ PreloadStore
       \/ PreloadDone
    /\ PrefixInputs'

PrefixSpec == Init /\ [][PrefixNext]_vars

\* ------------------------------------------------------------------------
\* _match_filters on its own: a stored record and the two filters are
\* drawn, among them labels in Latin letters of either case, and the
\* filters are applied
\* ------------------------------------------------------------------------
ColorWhiteLatin == <<"W", "h", "i", "t", "e">>

ProbeRecordShapes == {<<>>, ShapeRound, ShapeOval}

ProbeRecordColors ==
    {<<>>, ColorWhite, ColorYellow, ColorWhiteLatin,
     <<"w", "h", "i", "t", "e">>}

ProbeFilterColors ==
    {<<>>, <<"bai">>, <<"W", "h">>, <<"w", "h">>,
     <<"W", "H", "I", "T", "E">>}

MatchInit ==
    /\ InitProgram
    /\ probe \in [pc : {"drawn"}, shape : ProbeRecordShapes,
                  color : ProbeRecordColors, filter_shape : FilterShapes,
                  filter_color : ProbeFilterColors, matches : {FALSE}]

ApplyMatchFilters ==
    /\ probe.pc = "drawn"
    /\ probe' = [probe EXCEPT !.pc = "matched",
                   !.matches =
                       MatchFilters([shape |-> probe.shape,
                                     color |-> probe.color],
                                    probe.filter_shape, probe.filter_color)]
    /\ UNCHANGED <<PROGRESS, CANCEL_FLAGS, cancel_ev, recognizer_vars, call,
                   cancel, lock_vars>>

MatchNext == ApplyMatchFilters

MatchSpec == MatchInit /\ [][MatchNext]_vars

\* ------------------------------------------------------------------------
\* _infer_color_labels on its own: the mean hue, saturation and value of
\* the frame (in tenths) are drawn at and between the ends of the hue
\* ranges, and the labels are inferred
\* ------------------------------------------------------------------------
ProbeHues ==
    {0, 100, 105, 110, 250, 255, 260, 340, 345, 350, 850, 855, 860, 1250,
     1255, 1260, 1590, 1595, 1600, 1800}

ProbeSaturations == {0, 299, 300, 999, 1000, 2000}

ProbeValues == {500, 1500, 1501, 2000}

HueInit ==
    /\ InitProgram
    /\ probe \in [pc : {"drawn"}, mean_h : ProbeHues,
                  mean_s : ProbeSaturations, mean_v : ProbeValues,
                  labels : {<<>>}]

ApplyInferColorLabels ==
    /\ probe.pc = "drawn"
    /\ probe' = [probe EXCEPT !.pc = "inferred",
                              !.labels = InferColorLabels(probe)]
    /\ UNCHANGED <<PROGRESS, CANCEL_FLAGS, cancel_ev, recognizer_vars, call,
                   cancel, lock_vars>>

HueNext == ApplyInferColorLabels

HueSpec == HueInit /\ [][HueNext]_vars

\* ------------------------------------------------------------------------
\* Notions the properties use
\* ------------------------------------------------------------------------
Range(seq) == {seq[i] : i \in 1 .. Len(seq)}

\* request ids a recognize call has registered
Recognized == {call[c].form.request_id : c \in {x \in Calls : call[x].pc # "idle"}}

AfterLoop == {"rank", "finish_read", "finish_write", "cleanup", "returned"}

\* the scan of call c has left its loop through the cancellation check,
\* after call[c].idx of its candidates
Broke(c) == call[c].pc \in AfterLoop /\ call[c].idx < Len(call[c].filtered)

Terminal == {"done", "canceled"}

StatusOf(progress, r) ==
    IF r \in DOMAIN progress THEN progress[r].status ELSE "unknown"

\* 0.15 of the final score
AtLeastFloor(similarity) == similarity * 100 >= 15 * ScoreOne

\* what a scan that is never cancelled collects for a form: the entries of
\* the candidates that have a readable file and reach the floor, in order
RECURSIVE Survivors(_, _)
Survivors(uploaded, records) ==
    IF records = <<>> THEN <<>>
    ELSE LET record == Head(records)
             content == PhotoDir(record.image_filename)
             score == ScoreCandidate(uploaded, ExtractFeatures(content),
                                     ExtractOrb(content))
         IN  (IF content.exists /\ content.decoded
                 /\ AtLeastFloor(score.similarity)
              THEN <<ResultEntry(record, score)>> ELSE <<>>)
                 \o Survivors(uploaded, Tail(records))

\* the list an uncancelled call with the form f returns
UncancelledRanking(f) ==
    LET q == QueryOf(f.query)
    IN  SortDescending(
            Survivors(q.image,
                      FilteredRecords(DbRows, q, f.filter_shape,
                                      f.filter_color)))

UncancelledResult(f) == SliceTo(UncancelledRanking(f), f.top_k)

\* a call that is never cancelled returns UncancelledResult of its form
UncancelledReturnsReference ==
    \A c \in Calls :
        (call[c].pc \in {"finish_read", "finish_write", "cleanup", "returned"}
         /\ ~Broke(c) /\ QueryOf(call[c].form.query).image.decoded)
            => call[c].results = UncancelledResult(call[c].form)

\* ------------------------------------------------------------------------
\* Properties
\* ------------------------------------------------------------------------

\* C1: once the status stored for a request id is 'done' or 'canceled', no
\* step (progress callback, completion of the call, cancel call) changes
\* the status stored for that id.  The registration of a new call under
\* the id is not among the steps the property restricts.
C1_TerminalStatusIsFinal ==
    [][\A r \in RequestIds :
           (/\ StatusOf(PROGRESS, r) \in Terminal
            /\ ~\E c \in Calls : /\ call[c].pc = "register_progress"
                                 /\ call'[c].pc = "start")
               => StatusOf(PROGRESS', r) = StatusOf(PROGRESS, r)]_vars

\* C2: the list a call returns after its scan was cancelled before the last
\* candidate is a subset of the list the uncancelled call with the same
\* upload, filters, top_k and corpus returns.
C2_CancelledSubsetOfUncancelled ==
    \A c \in Calls :
        (call[c].pc = "returned" /\ Broke(c))
            => Range(call[c].results) \subseteq
                   Range(UncancelledResult(call[c].form))

\* C2 as amended: the list a call returns after its scan was cancelled is a
\* subset of the uncancelled ranking before its truncation to top_k, each
\* entry with the score the uncancelled call gives it.
C2_CancelledSubsetOfRanking ==
    \A c \in Calls :
        (call[c].pc = "returned" /\ Broke(c))
            => Range(call[c].results) \subseteq
                   Range(UncancelledRanking(call[c].form))

\* a cancelled call returns an entry that the uncancelled call with the
\* same form leaves out
C2_Witness ==
    \E c \in Calls :
        /\ call[c].pc = "returned" /\ Broke(c)
        /\ call[c].results # <<>>
        /\ ~(Range(call[c].results) \subseteq
                 Range(UncancelledResult(call[c].form)))
        /\ UncancelledResult(call[c].form) # <<>>

\* C3: a request whose scan was cancelled after N candidates (N < total)
\* ends with status 'canceled' and stored processedCount N.
C3_CancelledCountIsN ==
    \A c \in Calls :
        (call[c].pc = "cleanup" /\ Broke(c))
            => /\ PROGRESS[call[c].form.request_id].status = "canceled"
               /\ PROGRESS[call[c].form.request_id].done = call[c].idx

\* C4: the cancellation check is consulted before each candidate is scored;
\* once it returns true the scan scores no further candidate and creates
\* no feature or keypoint cache entry, and the results collected so far are
\* kept: they are sorted and truncated to top_k, and returned.
C4_CancelStopsScanKeepsResults ==
    [][\A c \in Calls :
           \* a candidate is taken only after a check that returned false
           /\ call'[c].idx # call[c].idx
                  => call[c].pc \in {"start", "score", "store"}
           /\ (call'[c].pc \in {"score", "store"}
                   /\ call[c].pc \notin {"score", "store"})
                  => (call[c].pc = "loop" /\ ~cancel_ev[c])
           \* a check that finds the event set leaves the loop, results kept
           /\ (call[c].pc = "loop" /\ cancel_ev[c] /\ call'[c] # call[c])
                  => (Broke(c)' /\ call'[c].results = call[c].results)
           \* after that: no candidate, no cache entry, results ranked
           /\ Broke(c)
                  => /\ call'[c].idx = call[c].idx
                     /\ call'[c] # call[c]
                            => /\ feature_cache' = feature_cache
                               /\ orb_cache' = orb_cache
                     /\ call[c].pc = "rank" /\ call'[c].pc # "rank"
                            => call'[c].results =
                                   SliceTo(SortDescending(call[c].results),
                                           call'[c].form.top_k)
                     /\ call[c].pc # "rank"
                            => call'[c].results = call[c].results]_vars

\* a scan cancelled after its first candidate has returned the entry it
\* collected, while candidates remained
C4_Witness ==
    \E c \in Calls :
        /\ call[c].pc = "returned" /\ Broke(c)
        /\ call[c].idx >= 1
        /\ call[c].results # <<>>
        /\ call[c].response.data = call[c].results

\* C5: for every request id the stored processedCount is at most the
\* stored totalCount.
C5_DoneAtMostTotal ==
    \A r \in DOMAIN PROGRESS : PROGRESS[r].done <= PROGRESS[r].total

\* C6: a cancel call that carries a request id answers success whatever the
\* state of the id, and none of its steps waits for anything.
C6_CancelAlwaysSucceeds ==
    \A k \in CancelHandlers :
        /\ (cancel[k].pc = "returned" /\ cancel[k].req_id \in RequestIds)
               => cancel[k].reply = "success"
        /\ cancel[k].pc \notin {"idle", "returned"}
               => /\ cancel[k].req_id \in RequestIds
                  /\ ENABLED CancelStep(k)

\* a cancel call has answered success for an id no recognize call has
\* registered, while a recognize call for another id is scanning
C6_Witness ==
    \E k \in CancelHandlers :
        /\ cancel[k].pc = "returned" /\ cancel[k].reply = "success"
        /\ cancel[k].req_id \notin Recognized
        /\ \E c \in Calls : call[c].pc \in {"loop", "score"}

\* C7: a cancel call for a request id that has already been cancelled
\* changes neither the status nor the counts stored for the id.  Stated for
\* the repeated cancel that arrives after the scan has finished: it finds
\* no flag for the id, so the 'canceled' it meets was stored before it
\* began.
C7_RepeatedCancelChangesNothing ==
    [][\A k \in CancelHandlers :
           (/\ cancel[k].pc = "write_absent"
            /\ cancel'[k].pc = "returned"
            /\ StatusOf(PROGRESS, cancel[k].req_id) = "canceled")
               => PROGRESS'[cancel[k].req_id] = PROGRESS[cancel[k].req_id]]_vars

\* C8: a request whose scan was cancelled is answered with success and the
\* partial results, never with a not-successful answer.
C8_CancelledIsNotAnError ==
    \A c \in Calls :
        (call[c].pc = "returned" /\ Broke(c))
            => /\ call[c].response.success
               /\ call[c].response.data = call[c].results

\* C9: progress lookup for a request id that no recognize call has used
\* returns status 'unknown', done 0, total 0.
C9_UnusedIdIsUnknown ==
    \A r \in RequestIds \ Recognized :
        /\ ProgressOf(PROGRESS, r).status = "unknown"
        /\ ProgressOf(PROGRESS, r).done = 0
        /\ ProgressOf(PROGRESS, r).total = 0

\* C9 as amended: progress lookup for a request id that no recognize call
\* has used returns 'unknown', 0, 0 until a cancel call that carries the id
\* writes its entry, and 'canceled', 0, 0 from then on.
C9_UnusedIdUnknownUntilCancelled ==
    [][\A r \in RequestIds \ Recognized' :
           LET before == ProgressOf(PROGRESS, r)
               after == ProgressOf(PROGRESS', r)
               unknown == [request_id |-> r, success |-> FALSE,
                           status |-> "unknown", done |-> 0, total |-> 0]
               canceled == [request_id |-> r, success |-> TRUE,
                            status |-> "canceled", done |-> 0, total |-> 0]
           IN  /\ before \in {unknown, canceled}
               /\ after \in {unknown, canceled}
               /\ before = canceled => after = canceled
               /\ (before = unknown /\ after = canceled)
                      => \E k \in CancelHandlers :
                             /\ cancel[k].req_id = r
                             /\ cancel[k].pc = "write_absent"
                             /\ cancel'[k].pc = "returned"]_vars

\* an id no recognize call has used has an entry, written by a cancel call,
\* while a recognize call has registered another id
C9_Witness ==
    \E r \in RequestIds \ Recognized :
        /\ r \in DOMAIN PROGRESS
        /\ Recognized # {}
        /\ \E k \in CancelHandlers :
               cancel[k].req_id = r /\ cancel[k].pc = "returned"

\* C10: no entry of the list a call holds or returns has a final score
\* below 0.15.
C10_NoResultBelowFloor ==
    \A c \in Calls :
        /\ \A i \in 1 .. Len(call[c].results) :
               AtLeastFloor(call[c].results[i].similarity)
        /\ \A i \in 1 .. Len(call[c].response.data) :
               AtLeastFloor(call[c].response.data[i].similarity)

\* a call has returned fewer than top_k entries after its scan dropped a
\* candidate that scored below 0.15
C10_Witness ==
    \E c \in Calls :
        /\ call[c].pc = "returned"
        /\ call[c].response.success
        /\ Len(call[c].response.data) < call[c].form.top_k
        /\ \E i \in 1 .. call[c].idx :
               LET content == PhotoDir(call[c].filtered[i].image_filename)
               IN  /\ content.exists /\ content.decoded
                   /\ ~AtLeastFloor(
                          ScoreCandidate(QueryOf(call[c].form.query).image,
                                         ExtractFeatures(content),
                                         ExtractOrb(content)).similarity)

\* ------------------------------------------------------------------------
\* Ranking and filters
\* ------------------------------------------------------------------------
Ranked == {"finish_read", "finish_write", "cleanup", "returned"}

\* call c has answered a scan that was not cancelled, of a readable upload
Uncancelled(c) ==
    /\ call[c].pc = "returned"
    /\ ~Broke(c)
    /\ QueryOf(call[c].form.query).image.decoded

\* the entries an uncancelled scan of the form f collects, in scan order
SurvivorsOf(f) ==
    LET q == QueryOf(f.query)
    IN  Survivors(q.image,
                  FilteredRecords(DbRows, q, f.filter_shape, f.filter_color))

\* C11: the list a call holds after ranking, and the list it returns, are
\* sorted by non-increasing final score, also when the scan was cancelled.
C11_SortedByScore ==
    \A c \in Calls :
        /\ call[c].pc \in Ranked
               => \A i \in 1 .. (Len(call[c].results) - 1) :
                      call[c].results[i].similarity
                          >= call[c].results[i + 1].similarity
        /\ \A i \in 1 .. (Len(call[c].response.data) - 1) :
               call[c].response.data[i].similarity
                   >= call[c].response.data[i + 1].similarity

\* a cancelled call has returned two entries with different scores, the
\* better one collected after the other
C11_Witness ==
    \E c \in Calls :
        /\ call[c].pc = "returned" /\ Broke(c)
        /\ Len(call[c].response.data) = 2
        /\ call[c].response.data[1].similarity
               > call[c].response.data[2].similarity
        /\ call[c].response.data[1].record.image_filename
               > call[c].response.data[2].record.image_filename

\* C12: entries with equal final score appear in the order of their
\* records in the metadata list, and the truncation to top_k keeps the
\* earlier of tied candidates.
C12_TiesKeepInputOrder ==
    \A c \in Calls :
        call[c].pc \in Ranked
            => /\ \A i, j \in 1 .. Len(call[c].results) :
                      (i < j /\ call[c].results[i].similarity
                                    = call[c].results[j].similarity)
                          => call[c].results[i].record.image_filename
                                 < call[c].results[j].record.image_filename
               /\ ~Broke(c) /\ QueryOf(call[c].form.query).image.decoded
                      => \A s \in Range(SurvivorsOf(call[c].form))
                                      \ Range(call[c].results) :
                             \A i \in 1 .. Len(call[c].results) :
                                 call[c].results[i].similarity = s.similarity
                                     => call[c].results[i].record.image_filename
                                            < s.record.image_filename

\* an uncancelled call has returned two entries, the second of which ties
\* with a later candidate that the truncation dropped
C12_Witness ==
    \E c \in Calls :
        /\ Uncancelled(c)
        /\ Len(call[c].response.data) = 2
        /\ \E s \in Range(SurvivorsOf(call[c].form))
                        \ Range(call[c].response.data) :
               /\ s.similarity = call[c].response.data[2].similarity
               /\ s.record.image_filename
                      > call[c].response.data[2].record.image_filename

\* C13: for every top_k the client sends, an uncancelled call returns at
\* most top_k entries (none for a top_k below 1), and they are the first
\* top_k entries of the ranking of all surviving candidates.
C13_ReturnsTopK ==
    \A c \in Calls :
        Uncancelled(c)
            => LET ranking == UncancelledRanking(call[c].form)
                   k == Max(0, call[c].form.top_k)
               IN  /\ Len(call[c].response.data) <= k
                   /\ call[c].response.data =
                          SubSeq(ranking, 1, Min(k, Len(ranking)))

\* C14: when a shape filter is supplied, every record the scan takes and
\* every entry the call holds or returns has a shape label equal to the
\* filter value.
C14_ShapeFilterIsExact ==
    \A c \in Calls :
        ~Falsy(call[c].form.filter_shape)
            => /\ \A i \in 1 .. Len(call[c].filtered) :
                      call[c].filtered[i].shape = call[c].form.filter_shape
               /\ \A i \in 1 .. Len(call[c].results) :
                      call[c].results[i].record.shape
                          = call[c].form.filter_shape
               /\ \A i \in 1 .. Len(call[c].response.data) :
                      call[c].response.data[i].record.shape
                          = call[c].form.filter_shape

\* a call with a shape filter has returned entries, while the metadata
\* list holds a record whose shape label contains the filter value without
\* being equal to it, and a record without shape label
C14_Witness ==
    \E c \in Calls :
        /\ call[c].pc = "returned"
        /\ ~Falsy(call[c].form.filter_shape)
        /\ call[c].response.data # <<>>
        /\ \E r \in Range(image_records) :
               /\ Contains(r.shape, call[c].form.filter_shape)
               /\ r.shape # call[c].form.filter_shape
        /\ \E r \in Range(image_records) : Falsy(r.shape)

\* C15: when a color filter is supplied, every record the scan takes and
\* every entry the call holds or returns has a color label that is present
\* and contains the filter value; with both filters its shape label equals
\* the shape filter as well.
C15_ColorFilterIsSubstring ==
    \A c \in Calls :
        ~Falsy(call[c].form.filter_color)
            => \A r \in Range(call[c].filtered)
                        \cup {e.record : e \in Range(call[c].results)}
                        \cup {e.record : e \in Range(call[c].response.data)} :
                   /\ ~Falsy(r.color)
                   /\ Contains(r.color, call[c].form.filter_color)
                   /\ ~Falsy(call[c].form.filter_shape)
                          => r.shape = call[c].form.filter_shape

\* a call with both filters has returned entries, while the metadata list
\* holds a record of the filtered shape without color label and a record of
\* the filtered color with another shape
C15_Witness ==
    \E c \in Calls :
        /\ call[c].pc = "returned"
        /\ ~Falsy(call[c].form.filter_color)
        /\ ~Falsy(call[c].form.filter_shape)
        /\ call[c].response.data # <<>>
        /\ \E r \in Range(image_records) :
               r.shape = call[c].form.filter_shape /\ Falsy(r.color)
        /\ \E r \in Range(image_records) :
               /\ Contains(r.color, call[c].form.filter_color)
               /\ r.shape # call[c].form.filter_shape

\* C16: every entry a call returns has a similarity in [0, 1].
C16_SimilarityInUnitInterval ==
    \A c \in Calls :
        \A i \in 1 .. Len(call[c].response.data) :
            /\ 0 <= call[c].response.data[i].similarity
            /\ call[c].response.data[i].similarity <= ScoreOne

\* ------------------------------------------------------------------------
\* Feature cache, reload, determinism
\* ------------------------------------------------------------------------
\* the image reference the scan of call c is fetching
FetchedBy(c) == call[c].filtered[call[c].idx + 1].image_filename

\* what a call answers for its form when its scan is not cancelled
ReferenceResult(f) ==
    IF QueryOf(f.query).image.decoded THEN UncancelledResult(f) ELSE <<>>

\* C17: a _get_or_compute_features call for an image reference that has an
\* entry in the cache, made by a scan or by the loader, is served from the
\* cache: it computes nothing, leaves cache and computed count as they
\* are, and the entry it returns is the value computed from the file.
C17_SecondFetchServedFromCache ==
    [][/\ \A c \in Calls :
              (/\ call[c].pc = "score"
               /\ call'[c] # call[c]
               /\ FetchedBy(c) \in DOMAIN feature_cache)
                  => /\ call'[c].pc # "store"
                     /\ feature_cache' = feature_cache
                     /\ computed_count' = computed_count
                     /\ feature_cache[FetchedBy(c)] =
                            ExtractFeatures(PhotoDir(FetchedBy(c)))
       /\ (/\ preload.pc = "features"
           /\ preload' # preload
           /\ preload.next <= Len(image_records)
           /\ image_records[preload.next].image_filename
                  \in DOMAIN feature_cache)
              => /\ preload'.pc # "store"
                 /\ feature_cache' = feature_cache
                 /\ computed_count' = computed_count]_vars

\* a request that arrived after the last reload had completed, so that the
\* loader had stored the features of every readable file before, has
\* scanned candidates and collected entries
C17_Witness ==
    \E c \in Calls :
        /\ call[c].after_reload
        /\ preload.reloads = MaxReloads
        /\ call[c].idx >= 2
        /\ Len(call[c].results) >= 2
        /\ \A i \in 1 .. call[c].idx :
               PhotoDir(call[c].filtered[i].image_filename).decoded
                   => call[c].filtered[i].image_filename
                          \in DOMAIN feature_cache
        /\ computed_count = Cardinality(DOMAIN feature_cache)

\* C18: however the stores of threads that computed the features of the
\* same image reference interleave, every cache entry holds the value one
\* computation of its file produces, and the computed count equals the
\* number of cached references.
C18_RacingStoresKeepCacheSound ==
    /\ \A filename \in DOMAIN feature_cache :
           feature_cache[filename] = ExtractFeatures(PhotoDir(filename))
    /\ computed_count = Cardinality(DOMAIN feature_cache)

\* a scan and the loader have both missed the cache for the same image
\* reference and computed its features; the loader has stored its value,
\* the scan is about to store on top of it
C18_Witness ==
    \E c \in Calls :
        /\ call[c].pc = "store"
        /\ FetchedBy(c) \in DOMAIN feature_cache
        /\ preload.pc \in {"features", "done"}
        /\ preload.next > FetchedBy(c)
        /\ preload.reloads = 0

\* C19: for an unchanged corpus, a query that arrives after a reload has
\* completed returns the ranking the same query returns before any
\* reload: the same candidates, in the same order, with the same scores.
C19_SameRankingAfterReload ==
    \A c \in Calls :
        call[c].pc = "returned"
            => /\ (~call[c].after_reload /\ preload.reloads = 0)
                      => call[c].results = ReferenceResult(call[c].form)
               /\ call[c].after_reload
                      => call[c].results = ReferenceResult(call[c].form)

\* a query that arrived after a reload had completed has returned two
\* entries
C19_Witness ==
    \E c \in Calls :
        /\ call[c].pc = "returned"
        /\ call[c].after_reload
        /\ Len(call[c].response.data) >= 2

Unusable(record) ==
    LET content == PhotoDir(record.image_filename)
    IN  ~content.exists \/ ~content.decoded

\* the matcher raises on the upload of a form and the file of a record
MatchingFails(f, record) ==
    LET content == PhotoDir(record.image_filename)
        uploaded_orb == ExtractOrb(QueryOf(f.query).image)
    IN  /\ content.exists /\ content.decoded
        /\ uploaded_orb # NoDescriptors
        /\ ExtractOrb(content) # NoDescriptors
        /\ KnnMatchRaises(uploaded_orb, ExtractOrb(content))

\* C21: a candidate whose file is missing or cannot be decoded is skipped
\* without a result and without a feature-cache entry, a candidate whose
\* keypoint matching fails gets imprint similarity 0, and in both cases the
\* scan goes on with the next candidate: the loop is left only through
\* the cancellation check or after the last candidate.
C21_CandidateFailureIsIsolated ==
    [][\A c \in Calls :
           /\ (call[c].pc \in {"score", "store"}
               /\ call'[c].idx = call[c].idx + 1)
                  => LET record == call[c].filtered[call'[c].idx]
                         last == call'[c].idx = Len(call[c].filtered)
                     IN  /\ call'[c].pc = IF last THEN "rank" ELSE "loop"
                         /\ Unusable(record)
                                => /\ call'[c].results = call[c].results
                                   /\ feature_cache' = feature_cache
                                   /\ record.image_filename
                                          \notin DOMAIN feature_cache'
                         /\ (MatchingFails(call[c].form, record)
                             /\ call'[c].results # call[c].results)
                                => call'[c].results[Len(call'[c].results)]
                                       .details.imprint = 0
           /\ (call[c].pc = "loop" /\ call'[c].pc = "rank")
                  => cancel_ev[c]
           /\ (call[c].pc = "loop" /\ call'[c].pc \notin {"loop", "rank"})
                  => call'[c].pc = "score"]_vars

\* an uncancelled call has returned a candidate whose matching failed,
\* with imprint similarity 0, that comes after a candidate with a missing
\* file, and its scan also met a file that cannot be decoded
C21_Witness ==
    \E c \in Calls :
        /\ call[c].pc = "returned" /\ ~Broke(c)
        /\ \E i, j, k \in 1 .. Len(call[c].filtered) :
              /\ i < j
              /\ ~PhotoDir(call[c].filtered[i].image_filename).exists
              /\ call[c].filtered[i].image_filename
                     \notin DOMAIN feature_cache
              /\ MatchingFails(call[c].form, call[c].filtered[j])
              /\ \E e \in Range(call[c].results) :
                    /\ e.record = call[c].filtered[j]
                    /\ e.details.imprint = 0
              /\ PhotoDir(call[c].filtered[k].image_filename).exists
              /\ Unusable(call[c].filtered[k])
              /\ call[c].filtered[k].image_filename
                     \notin DOMAIN feature_cache

\* C22: when the upload cannot be decoded, the scan returns an empty list
\* without taking a candidate and without touching the metadata or the
\* caches, and the request is answered with the not-successful 'cannot
\* recognize' message, whatever filters were supplied.
C22_UndecodableUploadCannotRecognize ==
    \A c \in Calls :
        (call[c].pc = "returned"
         /\ ~QueryOf(call[c].form.query).image.decoded)
            => /\ call[c].results = <<>>
               /\ call[c].idx = 0
               /\ call[c].filtered = <<>>
               /\ ~metadata_loaded
               /\ feature_cache = <<>>
               /\ orb_cache = <<>>
               /\ call[c].response =
                      [success |-> FALSE, message |-> "cannot_recognize",
                       data |-> <<>>]

\* C23: once the recognize call of a request id has ended (it returned
\* results, returned an empty list, or failed with an exception) and its
\* handler has answered, the status stored for the id is 'done' or
\* 'canceled', never 'running'.
C23_EndedCallHasTerminalStatus ==
    \A c \in Calls :
        call[c].pc \in {"returned", "failed"}
            => StatusOf(PROGRESS, call[c].form.request_id) \in Terminal

\* C24: for each candidate index i the loop reaches without cancellation,
\* on_progress(i, total) is called before candidate i+1 is processed, also
\* for a candidate that is skipped or dropped below the floor: the step
\* that ends the iteration of candidate i stores (i, total, 'running')
\* under the request id.
C24_ProgressAfterEveryCandidate ==
    [][\A c \in Calls :
           (call[c].pc \in {"score", "store"}
            /\ call'[c].idx = call[c].idx + 1)
               => /\ call[c].form.request_id \in DOMAIN PROGRESS'
                  /\ PROGRESS'[call[c].form.request_id] =
                         ProgressEntry(call'[c].idx, Len(call[c].filtered),
                                       "running")]_vars

\* C25: the final score is (0.40 color + 0.30 shape + 0.20 texture + 0.10
\* imprint) x colorPenalty x shapePenalty, with colorPenalty 0.3 below
\* 0.35, 0.6 from 0.35 to below 0.5, 1.0 from 0.5, and shapePenalty 0.5
\* below 0.3, 0.7 from 0.3 to below 0.4, 1.0 from 0.4.  All similarities
\* are taken to the scale of the shape similarity (20000 = 1), penalties
\* are in tenths, and the final score is on the scale of ScoreOne.
C25_FusionFormula ==
    probe.pc = "scored"
        => LET color == 20 * probe.color
               shape == probe.shape
               texture == 20 * probe.texture
               imprint == 20 * probe.imprint
               colorPenalty == CASE probe.color < 350 -> 3
                                 [] probe.color >= 350 /\ probe.color < 500
                                        -> 6
                                 [] probe.color >= 500 -> 10
               shapePenalty == CASE probe.shape < 6000 -> 5
                                 [] probe.shape >= 6000 /\ probe.shape < 8000
                                        -> 7
                                 [] probe.shape >= 8000 -> 10
           IN  10 * probe.similarity =
                   (40 * color + 30 * shape + 20 * texture + 10 * imprint)
                       * colorPenalty * shapePenalty

\* a candidate with color similarity exactly 0.35 and shape similarity
\* exactly 0.3 has been scored with the penalties 0.6 and 0.7
C25_Witness ==
    /\ probe.pc = "scored"
    /\ probe.color = 350 /\ probe.shape = 6000
    /\ probe.texture = 1000 /\ probe.imprint = 0
    /\ probe.similarity = (80 * 350 + 3 * 6000 + 40 * 1000) * 6 * 7

\* the color similarity of the upload of a form and the file of a record
ColorSimilarityOf(f, record) ==
    CalculateSimilarity(QueryOf(f.query).image.hist,
                        PhotoDir(record.image_filename).hist)

\* the upload of a form has keypoint descriptors
UploadHasDescriptors(f) == ExtractOrb(QueryOf(f.query).image) # NoDescriptors

\* C26: the keypoint cache gets an entry for a candidate only in the
\* iteration of that candidate, and only when the candidate has features,
\* its color similarity is at least 0.3 and the upload has descriptors;
\* otherwise the keypoint cache is not touched and a result appended for
\* the candidate has imprint similarity 0.
C26_KeypointsOnlyBehindGate ==
    [][\A c \in Calls :
           /\ (call[c].pc \in {"score", "store"}
               /\ call'[c].idx = call[c].idx + 1)
                  => LET record == call[c].filtered[call'[c].idx]
                         open == /\ ~Unusable(record)
                                 /\ UploadHasDescriptors(call[c].form)
                                 /\ ColorSimilarityOf(call[c].form, record)
                                        >= 300
                     IN  /\ orb_cache' # orb_cache
                                => /\ open
                                   /\ DOMAIN orb_cache' =
                                          DOMAIN orb_cache
                                              \cup {record.image_filename}
                         /\ ~open
                                => /\ orb_cache' = orb_cache
                                   /\ call'[c].results # call[c].results
                                          => call'[c].results
                                                 [Len(call'[c].results)]
                                                 .details.imprint = 0
           /\ (\A x \in Calls : call'[x].idx # call[x].idx + 1)
                  => orb_cache' = orb_cache]_vars

\* a call whose upload has descriptors has returned after a candidate of
\* color similarity below 0.3, for which the keypoint cache holds no
\* entry, and a candidate behind the gate, for which it holds one
C26_Witness ==
    \E c \in Calls :
        /\ call[c].pc = "returned"
        /\ UploadHasDescriptors(call[c].form)
        /\ \E i, j \in 1 .. call[c].idx :
              /\ ~Unusable(call[c].filtered[i])
              /\ ColorSimilarityOf(call[c].form, call[c].filtered[i]) < 300
              /\ call[c].filtered[i].image_filename \notin DOMAIN orb_cache
              /\ ~Unusable(call[c].filtered[j])
              /\ ColorSimilarityOf(call[c].form, call[c].filtered[j]) >= 300
              /\ call[c].filtered[j].image_filename \in DOMAIN orb_cache
              /\ \E e \in Range(call[c].results) :
                    e.record = call[c].filtered[j]

\* the scan of call c has passed the selection of its candidates
Selected(c) ==
    /\ call[c].pc \notin {"idle", "register_progress", "start", "failed"}
    /\ QueryOf(call[c].form.query).image.decoded

\* C27: with a shape or a color filter the inferred labels are not
\* applied: the candidates are the records that match the filters.  With
\* no filter and a non-empty list of inferred labels the candidates are
\* exactly the records whose color label contains one of the labels, a
\* record without color label not among them.  With no filter and an empty
\* list, all records are candidates.  The candidates keep the order of the
\* metadata list.
C27_InferenceOnlyWithoutFilters ==
    \A c \in Calls :
        Selected(c)
            => LET f == call[c].form
                   labels == InferColorLabels(QueryOf(f.query))
                   candidates == Range(call[c].filtered)
               IN  /\ (f.filter_shape # <<>> \/ f.filter_color # <<>>)
                          => candidates =
                                 {r \in Range(image_records) :
                                     MatchFilters(r, f.filter_shape,
                                                  f.filter_color)}
                   /\ (f.filter_shape = <<>> /\ f.filter_color = <<>>
                       /\ labels # <<>>)
                          => candidates =
                                 {r \in Range(image_records) :
                                     /\ r.color # <<>>
                                     /\ \E l \in Range(labels) :
                                            Contains(r.color, l)}
                   /\ (f.filter_shape = <<>> /\ f.filter_color = <<>>
                       /\ labels = <<>>)
                          => call[c].filtered = image_records
                   /\ \A i, j \in 1 .. Len(call[c].filtered) :
                          i < j => call[c].filtered[i].drug_id
                                       < call[c].filtered[j].drug_id

\* a scan without filters whose upload gives labels has left out a record
\* without color label and a record of another color, and has candidates
C27_Witness ==
    \E c \in Calls :
        /\ Selected(c)
        /\ call[c].form.filter_shape = <<>>
        /\ call[c].form.filter_color = <<>>
        /\ InferColorLabels(QueryOf(call[c].form.query)) # <<>>
        /\ call[c].filtered # <<>>
        /\ \E r1, r2 \in Range(image_records) \ Range(call[c].filtered) :
              r1.color = <<>> /\ r2.color # <<>>

\* ------------------------------------------------------------------------
\* The lock discipline (LockSpec)
\* ------------------------------------------------------------------------
Threads == Calls \cup Workers

\* where thread t is
Position(t) == IF t \in Calls THEN call[t].pc ELSE worker[t].pc

\* the positions inside a with-block of the load lock
InsideLock ==
    {"meta_recheck", "meta_query", "meta_flag", "store_insert",
     "store_count", "reload_clear_cache", "reload_clear_flag"}

\* the positions at which a thread waits for the load lock
AtLock == {"meta_lock", "store_lock", "reload_lock"}

\* the state the load lock guards
SharedState ==
    <<feature_cache, orb_cache, computed_count, metadata_loaded,
      image_records>>

\* C28: a thread inside a block that writes the feature cache, the
\* keypoint cache, the computed count, the metadata flag or the metadata
\* list holds the load lock, so at most one thread among the loader, the
\* reload and the scans is inside such a block; and every step that
\* changes one of them is taken by the thread that holds the lock, or is a
\* whole block entered with the lock free.
C28_WritesHoldTheLock ==
    [][/\ \A t \in Threads : Position(t)' \in InsideLock => load_lock' = t
       /\ SharedState' # SharedState
              => \/ load_lock = NoThread
                 \/ \E t \in Threads :
                        /\ load_lock = t
                        /\ Position(t) \in InsideLock
                        /\ Position(t)' # Position(t)]_vars

\* the loader is between its insert and its count while the reload and a
\* scan wait for the lock
C28_Witness ==
    /\ worker[LoaderThread].pc = "store_count"
    /\ load_lock = LoaderThread
    /\ worker[ReloadThread].pc = "reload_lock"
    /\ \E c \in Calls : call[c].pc \in AtLock

\* the store has been queried at most once since the flag was last
\* cleared, and a set flag means the list is the one that query yielded
C29_QueriedAtMostOnce ==
    /\ store_queries <= 1
    /\ metadata_loaded => store_loaded = <<image_records>>

\* C29: between cache resets the store query succeeds at most once,
\* whatever the interleaving of the loader, the reload and the scans that
\* call _load_image_metadata: a thread queries the store only under the
\* lock with the flag unset, the query that succeeds sets the flag, and a
\* thread that finds the flag set finds the list that query yielded.  A
\* query that fails leaves the flag unset and the list empty, and the next
\* caller queries again.
C29_LoadedAtMostOnce ==
    /\ Len(store_loaded) <= 1
    /\ metadata_loaded => store_loaded = <<image_records>>
    /\ \A t \in Threads :
          Position(t) \in {"meta_query", "meta_flag"}
              => ~metadata_loaded /\ load_lock = t
    /\ \A t \in Threads :
          Position(t) = "meta_flag"
              => store_loaded = <<image_records>>
    /\ (~metadata_loaded /\ store_queries > 0
        /\ \A t \in Threads : Position(t) # "meta_flag")
           => image_records = <<>> /\ store_loaded = <<>>

\* after a failed query a second thread has loaded the list, and a third,
\* which had found the flag unset, finds it set under the lock
C29_Witness ==
    /\ store_queries = 2
    /\ Len(store_loaded) = 1
    /\ metadata_loaded
    /\ \E t \in Threads : Position(t) = "meta_recheck" /\ load_lock = t

\* the files of the records of a metadata list
FilesOf(records) == {records[i].image_filename : i \in DOMAIN records}

\* the step in which a sync reload_feature_cache returns
SyncReloadReturns ==
    /\ worker[ReloadThread].mode = "sync"
    /\ worker[ReloadThread].pc # "done"
    /\ worker[ReloadThread].pc' = "done"

\* C30: reload_feature_cache clears the feature cache, the computed count
\* and the metadata flag inside one block of the load lock and then runs
\* the loader; when a sync reload returns, the metadata is loaded and
\* every entry of the feature cache belongs to a record of the list that
\* was loaded.
C30_SyncReloadLeavesFreshCache ==
    [][/\ worker[ReloadThread].pc' \in {"reload_clear_cache",
                                        "reload_clear_flag"}
              => load_lock' = ReloadThread
       /\ (worker[ReloadThread].pc = "reload_clear_flag"
           /\ worker[ReloadThread].pc' = "meta_check")
              => /\ feature_cache' = <<>>
                 /\ computed_count' = 0
                 /\ ~metadata_loaded'
       /\ SyncReloadReturns
              => /\ metadata_loaded'
                 /\ DOMAIN feature_cache' \subseteq FilesOf(image_records')
      ]_vars

\* ------------------------------------------------------------------------
\* Values served after a reload (StaleSpec)
\* ------------------------------------------------------------------------
\* the step in which call c compares the candidate it is at
Compares(c) ==
    /\ call[c].pc \in {"score", "store"}
    /\ call[c].idx' = call[c].idx + 1

\* C31: a scan that arrives after reload_feature_cache has completed is
\* served no value computed before the reload.  The reload leaves the
\* feature cache empty, so the features such a scan finds there were
\* stored after it; and the keypoint descriptors such a scan uses for a
\* candidate are not taken from the keypoint cache as it was before the
\* scan came to that candidate, where only values computed before the
\* reload can be (the loader does not touch the keypoint cache and the
\* first request has returned before the reload).
C31_NothingStaleServedAfterReload ==
    [][/\ preload.reloads' # preload.reloads => feature_cache' = <<>>
       /\ \A c \in Calls :
             (call[c].after_reload /\ Compares(c))
                 => LET record == call[c].filtered[call[c].idx + 1]
                        got == FeaturesOf(feature_cache', record)
                    IN  (got.ok /\ OrbGateOpen(
                                       QueryOf(call[c].form.query).image,
                                       got.features))
                            => record.image_filename
                                   \notin DOMAIN orb_cache]_vars

\* ------------------------------------------------------------------------
\* The prefix the preloader computes (PrefixSpec)
\* ------------------------------------------------------------------------
\* the number of records the preloader may compute ahead
PrefixCap == 50

\* the files of the candidates the scan of call c has reached
ReachedBy(c) ==
    {call[c].filtered[j].image_filename : j \in 1 .. call[c].idx}

\* the files of the records at the positions the preloader has been at
PreloadedPrefix ==
    {image_records[i].image_filename :
        i \in 1 .. Min(preload.next - 1,
                       Min(PrefixCap, Len(image_records)))}

\* C32: the preloader goes through the records at the positions below
\* min(50, total) of the loaded list once, in order, and ends; it never
\* starts again by itself.  Every entry of the feature cache is that of
\* a record of this prefix the preloader has been at or of a candidate a
\* recognize scan has reached.
C32_PreloaderComputesPrefixOnce ==
    [][/\ preload.next' <= Min(PrefixCap, Len(image_records')) + 1
       /\ preload.next' >= preload.next
       /\ preload.pc = "done" => preload.pc' = "done"
       /\ preload.pc' = "done"
              => preload.next' = Min(PrefixCap, Len(image_records')) + 1
       /\ \A f \in DOMAIN feature_cache' :
             \/ f \in PreloadedPrefix'
             \/ \E c \in Calls : f \in ReachedBy(c)']_vars

\* the store has more rows than the limit, the preloader has ended with
\* the features of the readable files of the prefix in the cache, a scan
\* has put there those of a record behind the prefix, and those of another
\* record behind the prefix are not there
C32_Witness ==
    /\ Len(image_records) > PrefixCap
    /\ preload.pc = "done"
    /\ \A i \in 1 .. PrefixCap :
          (PhotoDir(image_records[i].image_filename).exists
           /\ PhotoDir(image_records[i].image_filename).decoded)
              => image_records[i].image_filename \in DOMAIN feature_cache
    /\ \E i, j \in PrefixCap + 1 .. Len(image_records) :
          /\ image_records[i].image_filename \in DOMAIN feature_cache
          /\ image_records[i].image_filename \in ReachedBy(FirstCall)
          /\ image_records[j].image_filename \notin DOMAIN feature_cache
          /\ PhotoDir(image_records[j].image_filename).decoded

\* ------------------------------------------------------------------------
\* The scope of a cancel call
\* ------------------------------------------------------------------------
\* C33: a step of a cancel call for request id r leaves the flags stored
\* under the other ids and the Events of the calls registered under other
\* ids as they are, leaves the progress entry of every other id as it is,
\* and changes nothing of the recognizer (feature cache, keypoint cache,
\* metadata, counters).
C33_CancelIsRequestScoped ==
    [][\A k \in CancelHandlers :
          cancel'[k] # cancel[k]
              => LET r == cancel'[k].req_id
                 IN  /\ CANCEL_FLAGS' = CANCEL_FLAGS
                     /\ \A c \in Calls :
                           call[c].form.request_id # r
                               => cancel_ev'[c] = cancel_ev[c]
                     /\ \A r2 \in (DOMAIN PROGRESS \cup DOMAIN PROGRESS')
                                      \ {r} :
                           /\ r2 \in DOMAIN PROGRESS
                           /\ r2 \in DOMAIN PROGRESS'
                           /\ PROGRESS'[r2] = PROGRESS[r2]
                     /\ UNCHANGED recognizer_vars
                     /\ UNCHANGED call]_vars

\* a cancel call for another id has answered while the scan of the call
\* has results, its Event unset and its entry running
C33_Witness ==
    \E k \in CancelHandlers, c \in Calls :
        /\ cancel[k].pc = "returned"
        /\ cancel[k].reply = "success"
        /\ cancel[k].req_id \in RequestIds
        /\ call[c].pc = "loop"
        /\ call[c].results # <<>>
        /\ call[c].form.request_id \in RequestIds \ {cancel[k].req_id}
        /\ ~cancel_ev[c]
        /\ cancel[k].req_id \in DOMAIN PROGRESS
        /\ PROGRESS[cancel[k].req_id].status = "canceled"
        /\ PROGRESS[call[c].form.request_id].status = "running"
        /\ PROGRESS[call[c].form.request_id].done > 0

\* ------------------------------------------------------------------------
\* The color filter and letter case (MatchSpec)
\* ------------------------------------------------------------------------
\* a letter in lower case
LowerLetter(ch) ==
    CASE ch = "W" -> "w"
      [] ch = "H" -> "h"
      [] ch = "I" -> "i"
      [] ch = "T" -> "t"
      [] ch = "E" -> "e"
      [] OTHER -> ch

\* str.lower()
Lower(s) == [i \in DOMAIN s |-> LowerLetter(s[i])]

\* C34: a color filter that differs from a substring of the stored color
\* label in letter case at most matches the record, when the shape filter
\* does not exclude it.
C34_ColorFilterIgnoresCase ==
    (/\ probe.pc = "matched"
     /\ probe.filter_color # <<>>
     /\ probe.color # <<>>
     /\ Contains(Lower(probe.color), Lower(probe.filter_color))
     /\ probe.filter_shape # <<>> => probe.shape = probe.filter_shape)
        => probe.matches

\* ------------------------------------------------------------------------
\* The hue ranges of the color inference (HueSpec)
\* ------------------------------------------------------------------------
\* the hue ranges in tenths, in the order of the hue axis, with the first
\* label of their family
HueRanges ==
    << [lo |-> 0, hi |-> 100, family |-> <<"hong">>],
       [lo |-> 110, hi |-> 250, family |-> <<"cheng">>],
       [lo |-> 260, hi |-> 340, family |-> <<"huang">>],
       [lo |-> 350, hi |-> 850, family |-> <<"lv">>],
       [lo |-> 860, hi |-> 1250, family |-> <<"lan">>],
       [lo |-> 1260, hi |-> 1590, family |-> <<"zi">>],
       [lo |-> 1600, hi |-> 1800, family |-> <<"hong">>] >>

\* the range h lies in, or the two ranges h lies between
AdjacentRanges(h) ==
    {k \in DOMAIN HueRanges :
        /\ k = 1 \/ HueRanges[k - 1].hi < h
        /\ k = Len(HueRanges) \/ h < HueRanges[k + 1].lo}

\* the frame is in the pink band
PinkBand(h, s, v) ==
    (h <= 100 \/ h >= 1600) /\ 300 <= s /\ s < 1000 /\ v > 1500

\* C35: for a frame with mean saturation at least 30 that is not in the
\* pink band, every mean hue, between two ranges too, gets the family of
\* a range it is adjacent to; brown is given to no such hue.
C35_HueRangesLeaveNoGap ==
    (/\ probe.pc = "inferred"
     /\ probe.mean_s >= 300
     /\ ~PinkBand(probe.mean_h, probe.mean_s, probe.mean_v))
        => /\ probe.labels # <<>>
           /\ \E k \in AdjacentRanges(probe.mean_h) :
                 Head(probe.labels) = HueRanges[k].family
           /\ Head(probe.labels) # <<"zong">>

\* C36: whenever the load lock is free, the computed count is the number
\* of entries of the feature cache, whatever the scans, the loader and the
\* reload have inserted and cleared.
C36_CountIsCacheSizeWhenUnlocked ==
    load_lock = NoThread
        => computed_count = Cardinality(DOMAIN feature_cache)

\* the lock is free after the reload has cleared a cache with entries and
\* the loader, the reload and a scan have inserted entries since
C36_Witness ==
    /\ load_lock = NoThread
    /\ worker[ReloadThread].pc = "done"
    /\ worker[LoaderThread].pc = "done"
    /\ \E c \in Calls : call[c].pc = "returned" /\ call[c].results # <<>>
    /\ computed_count >= 2
    /\ Cardinality(DOMAIN feature_cache) < Cardinality(FilesOf(DbRows))

\* C37: the processed count the progress lookup reports for a request id
\* does not decrease in any step, of the scan or of a cancel call for the
\* id, from the registration of the request on.
C37_ProcessedCountNeverDecreases ==
    [][\A r \in RequestIds :
          (\E c \in Calls : /\ call[c].form.request_id = r
                            /\ call[c].pc \notin {"idle",
                                                  "register_progress"})
              => ProgressOf(PROGRESS', r).done
                     >= ProgressOf(PROGRESS, r).done]_vars

\* the positions of a call inside the scan of the candidates
ScanningPositions == {"loop", "score", "store"}

\* C38: a cancel call that looks up the flag of request id r while a call
\* registered under r is scanning obtains the Event that this scan polls
\* (the one its ev.set() then sets), also when two calls were given the
\* same request id.
C38_CancelReachesTheScanningCall ==
    [][\A k \in CancelHandlers : \A c \in Calls :
          (/\ cancel[k].pc \in {"idle", "returned"}
           /\ cancel'[k].pc \in {"set", "write_absent"}
           /\ call[c].pc \in ScanningPositions
           /\ call[c].form.request_id = cancel'[k].req_id)
              => cancel'[k].ev = c]_vars

\* how often the cache had been cleared when thread t computed the
\* features it holds
EpochOf(t) == IF t \in Calls THEN call[t].epoch ELSE worker[t].epoch

\* C39: a thread that inserts features into the cache computed them after
\* the last clear of the cache: features computed before a reload cleared
\* the cache are not inserted after the clear.
C39_NothingComputedBeforeClearIsInserted ==
    [][\A t \in Threads :
          (Position(t) = "store_insert" /\ Position(t)' = "store_count")
              => EpochOf(t) = ClearsDone]_vars

\* thread t leaves position p in this step
Leaves(t, p) == Position(t) = p /\ Position(t)' # p

\* C40: a metadata query that fails leaves the flag unset and the list
\* empty and releases the lock; a recognize call that finds the list empty
\* returns the empty list on the ordinary path; a thread that finds the
\* flag unset goes on to take the lock and to query the store again; and a
\* call that filters while the flag is set scans candidates of the list the
\* successful query loaded.
C40_FailedLoadIsRetried ==
    [][/\ \A t \in Threads :
             (Leaves(t, "meta_query") /\ Position(t)' # "meta_flag")
                 => /\ ~metadata_loaded'
                    /\ image_records' = <<>>
                    /\ load_lock' = NoThread
       /\ \A c \in Calls :
             (Leaves(c, "filter") /\ image_records = <<>>)
                 => /\ call'[c].pc = "finish_read"
                    /\ call'[c].results = <<>>
       /\ \A t \in Threads :
             /\ (Leaves(t, "meta_check") /\ ~metadata_loaded)
                    => Position(t)' = "meta_lock"
             /\ (Leaves(t, "meta_recheck") /\ ~metadata_loaded)
                    => Position(t)' = "meta_query"
       /\ \A c \in Calls :
             (Leaves(c, "filter") /\ metadata_loaded)
                 => /\ call'[c].pc = "loop"
                    /\ call'[c].filtered # <<>>
                    /\ store_loaded # <<>>
                    /\ \A i \in DOMAIN call'[c].filtered :
                          \E j \in DOMAIN store_loaded[Len(store_loaded)] :
                             call'[c].filtered[i]
                                 = store_loaded[Len(store_loaded)][j]
      ]_vars

\* the query of a recognize call failed and the call returned the empty
\* list; afterwards the loader queried the store again and loaded the list
C40_Witness ==
    /\ \E c \in Calls : /\ call[c].pc = "returned"
                        /\ call[c].filtered = <<>>
                        /\ call[c].results = <<>>
                        /\ ~call[c].response.success
    /\ store_queries >= 2
    /\ metadata_loaded
    /\ store_loaded = <<image_records>>
    /\ image_records # <<>>
    /\ worker[ReloadThread].reloads = 0

====
